---- MODULE Spec2Model ----
(***************************************************************************)
(* A model of the closed-caption pipeline of youtube_summarizer:           *)
(* src/common/cc_parser.py (load_data, parse_cc).                          *)
(*                                                                         *)
(* Representation.  A Python str is a sequence of one-character strings,   *)
(* so that strip, startswith and join are computed character by character. *)
(* A Python value whose type matters is a record [t |-> type, v |-> value].*)
(* A Python dict is a record over the keys the program or its callers use; *)
(* a key holds <<>> when it is absent from the dict and <<value>> when it  *)
(* is present, and dict.get(key, default) is Get.                          *)
(***************************************************************************)
EXTENDS Naturals, Sequences, FiniteSets, TLC

VARIABLES
    fs,       \* the file system: path -> content of the files that exist
    remote,   \* the document the caption URL serves when it answers 200
    calls,    \* the activations of parse_cc: id -> frame (arguments, locals, position)
    mtime,    \* os.path.getmtime: path -> time of the last write of a metadata or cookies file
    now,      \* time.time()
    meta,     \* the activation of the metadata operation in progress (probe_url,
              \* get_info_json, process_url, reformat_json): arguments, locals, position
    pm,       \* the PromptManager and the windows that edit it: its prompts, the
              \* combobox values, the Add-Instructions window, the last handler run
    gui       \* the SummaryGUI: buttons, summarization workers, queue, summary path

\* What parse_cc does not touch.
others == <<mtime, now, meta, pm, gui>>

vars == <<fs, remote, calls, mtime, now, meta, pm, gui>>

(***************************************************************************)
(* Bounds of the model.                                                    *)
(***************************************************************************)
MaxEvents == 3

(***************************************************************************)
(* Python values.                                                          *)
(***************************************************************************)
None == [t |-> "NoneType", v |-> <<>>]
PyInt(n) == [t |-> "int", v |-> n]
PyBool(b) == [t |-> "bool", v |-> IF b THEN 1 ELSE 0]
PyStr(s) == [t |-> "str", v |-> s]
PyList(l) == [t |-> "list", v |-> l]
PyTuple(l) == [t |-> "tuple", v |-> l]
PyDict(d) == [t |-> "dict", v |-> d]

\* x == n for an int n: bool is a subclass of int (True == 1), None and str never equal an int.
PyEqInt(x, n) == x.t \in {"int", "bool"} /\ x.v = n

\* dict.get(key, default) on a field holding <<>> (absent) or <<value>>.
Get(field, default) == IF field = <<>> THEN default ELSE field[1]

(***************************************************************************)
(* str operations.                                                         *)
(***************************************************************************)
Whitespace == {" ", "\n", "\t"}

RECURSIVE lstrip(_)
lstrip(s) == IF s # <<>> /\ Head(s) \in Whitespace THEN lstrip(Tail(s)) ELSE s

RECURSIVE rstrip(_)
rstrip(s) ==
    IF s # <<>> /\ s[Len(s)] \in Whitespace THEN rstrip(SubSeq(s, 1, Len(s) - 1)) ELSE s

\* str.strip(): leading and trailing whitespace removed, inner whitespace kept.
strip(s) == rstrip(lstrip(s))

\* sep.join(strs)
RECURSIVE join(_, _)
join(sep, strs) ==
    IF strs = <<>> THEN <<>>
    ELSE IF Len(strs) = 1 THEN strs[1]
    ELSE strs[1] \o sep \o join(sep, Tail(strs))

\* s.startswith(prefixes) for a tuple of prefixes
startswith(s, prefixes) ==
    \E q \in prefixes : Len(s) >= Len(q) /\ SubSeq(s, 1, Len(q)) = q

URL_PREFIXES == { <<"h", "t", "t", "p", ":", "/", "/">>,
                  <<"h", "t", "t", "p", "s", ":", "/", "/">> }

\* str(x) of an argument used as a path: str(None) is the four characters None.
str(x) == IF x.t = "NoneType" THEN <<"N", "o", "n", "e">> ELSE x.v

\* bool(x) of a str or None
truthy(x) == x.t # "NoneType" /\ x.v # <<>>

(***************************************************************************)
(* Files.  A file's content is a JSON document or plain text.              *)
(***************************************************************************)
JsonDoc(d) == [t |-> "json", v |-> d]
Text(s) == [t |-> "text", v |-> s]

exists(path) == path \in DOMAIN fs

\* open(path, 'w') followed by f.writelines(content): the file holds content.
written(files, path, content) ==
    [q \in DOMAIN files \cup {path} |-> IF q = path THEN Text(content) ELSE files[q]]

(***************************************************************************)
(* The inputs: caption events, documents, sources, destinations.           *)
(***************************************************************************)
Seg(u) == [utf8 |-> <<u>>, text |-> <<>>]
SegTextOnly(x) == [utf8 |-> <<>>, text |-> <<x>>]

Ev(segs, flag) == [segs |-> <<segs>>, aAppend |-> flag]
EvNoSegs == [segs |-> <<>>, aAppend |-> <<>>]

Absent == <<>>
Append1 == <<PyInt(1)>>

\* The events a document is made of: with no segment, with whitespace only, with one
\* segment ("a\n" to start a line, "a" to continue it), with two segments whose joined
\* text is " b c\n"; without and with aAppend; and the records that lack a field.
Events ==
    { Ev(<<>>, Absent),
      Ev(<< Seg(<<"\n">>) >>, Absent),
      Ev(<< Seg(<<"\n">>) >>, Append1),
      Ev(<< Seg(<<"a", "\n">>) >>, Absent),
      Ev(<< Seg(<<"a">>) >>, Append1),
      Ev(<< Seg(<<"a">>) >>, <<PyBool(TRUE)>>),
      Ev(<< Seg(<<" ", "b">>), Seg(<<" ", "c", "\n">>) >>, Absent),
      Ev(<< Seg(<<" ", "b">>), Seg(<<" ", "c", "\n">>) >>, Append1),
      Ev(<< SegTextOnly(<<"a">>) >>, Absent),          \* a segment with `text`, no `utf8`
      EvNoSegs }                                       \* an event record without `segs`

EventSeqs == UNION { [1..n -> Events] : n \in 0..MaxEvents }

Docs ==
    { JsonDoc([events |-> <<es>>]) : es \in EventSeqs }
    \cup { JsonDoc([events |-> <<>>]),                  \* a document without `events`
           Text(<<"x">>) }                              \* not JSON

CaptionUrl == <<"h", "t", "t", "p", "s", ":", "/", "/", "y", "/", "c">>
PlainUrl == <<"h", "t", "t", "p", ":", "/", "/", "y", "/", "c">>
LocalFile == <<"c", "c", ".", "j", "s", "o", "n">>
MissingFile == <<"n", "o", ".", "j", "s", "o", "n">>
Sources == {CaptionUrl, PlainUrl, LocalFile, MissingFile}

OutTxt == <<"o", "u", "t", ".", "t", "x", "t">>
ExtraTxt == <<"e", "x", "t", "r", "a", ".", "t", "x", "t">>
\* The ways parse_cc is called: <<out_file, kwargs.get("output_file")>>.
CallArgs == { <<None, None>>,                          \* parse_cc(source)
              <<PyStr(OutTxt), None>>,                 \* parse_cc(source, out_file)
              <<PyStr(OutTxt), PyStr(ExtraTxt)>> }     \* ... and output_file=

\* What requests.get(source) can do: raise (no connection), or answer with a status
\* and a body.
Responses ==
    { [raised |-> TRUE, status_code |-> 0, body |-> Text(<<>>)] }
    \cup { [raised |-> FALSE, status_code |-> 404, body |-> Text(<<>>)],
           [raised |-> FALSE, status_code |-> 200, body |-> Text(<<"x">>)],
           [raised |-> FALSE, status_code |-> 200, body |-> remote] }

NoResponse == [raised |-> FALSE, status_code |-> 0, body |-> Text(<<>>)]

(***************************************************************************)
(* load_data(source): the outcome of one call, given what requests.get did.*)
(* An outcome is a returned document or a raised exception.                *)
(***************************************************************************)
Returned(d) == [raises |-> "", value |-> d]
Raised(e) == [raises |-> e, value |-> [events |-> <<>>]]

\* json.load / response.json() of a content
json_load(content) ==
    IF content.t = "json" THEN Returned(content.v) ELSE Raised("JSONDecodeError")

load_data(source, response) ==
    IF startswith(source, URL_PREFIXES)
    THEN IF response.raised THEN Raised("ConnectionError")
         ELSE IF response.status_code = 200 THEN json_load(response.body)
         ELSE Raised("RuntimeError")
    ELSE IF exists(source) THEN json_load(fs[source])
    ELSE Raised("RuntimeError")

(***************************************************************************)
(* parse_cc: the body of the loop over the events, and the flush after it. *)
(***************************************************************************)
\* event_text reading the segments' field text.
event_text_field_text(event) ==
    LET segs == Get(event.segs, <<>>)
    IN  join(<<>>, [k \in 1..Len(segs) |-> Get(segs[k].text, <<>>)])

\* event_text asking for the field without a default: a missing utf8 reads as None.
event_text_no_default(event) ==
    LET segs == Get(event.segs, <<>>)
    IN  join(<<>>, [k \in 1..Len(segs) |-> Get(segs[k].utf8, str(None))])

\* text = "".join(seg.get("utf8", "") for seg in event.get("segs", []))
event_text(event) ==
    LET segs == Get(event.segs, <<>>)
    IN  join(<<>>, [k \in 1..Len(segs) |-> Get(segs[k].utf8, <<>>)])

\* is_append taking only the integer 1, not the boolean true, as the flag.
is_append_int_only(event) ==
    Get(event.aAppend, None).t = "int" /\ Get(event.aAppend, None).v = 1

\* event.get("aAppend") == 1
is_append(event) == PyEqInt(Get(event.aAppend, None), 1)

\* process_event closing the paragraph before an append event too.
process_event_split(paragraphs, current_paragraph, event) ==
    LET text == event_text(event)
    IN  IF strip(text) = <<>>
        THEN IF strip(current_paragraph) # <<>>
             THEN [paragraphs |-> Append(paragraphs, strip(current_paragraph)),
                   current_paragraph |-> <<>>]
             ELSE [paragraphs |-> paragraphs, current_paragraph |-> current_paragraph]
        ELSE [paragraphs |-> IF strip(current_paragraph) # <<>>
                             THEN Append(paragraphs, strip(current_paragraph))
                             ELSE paragraphs,
              current_paragraph |-> strip(text)]

\* process_event putting an emitted paragraph at the front of the list.
process_event_prepend(paragraphs, current_paragraph, event) ==
    LET text == event_text(event)
        emitted == IF strip(current_paragraph) # <<>>
                   THEN << strip(current_paragraph) >> \o paragraphs
                   ELSE paragraphs
    IN  IF strip(text) = <<>>
        THEN [paragraphs |-> emitted,
              current_paragraph |-> IF strip(current_paragraph) # <<>> THEN <<>>
                                    ELSE current_paragraph]
        ELSE IF is_append(event)
        THEN [paragraphs |-> paragraphs,
              current_paragraph |-> current_paragraph \o <<" ">> \o strip(text)]
        ELSE [paragraphs |-> emitted, current_paragraph |-> strip(text)]

\* process_event with the non-append branch forgetting to flush the buffer it replaces.
process_event_no_flush(paragraphs, current_paragraph, event) ==
    LET text == event_text(event)
    IN  IF strip(text) = <<>>
        THEN IF strip(current_paragraph) # <<>>
             THEN [paragraphs |-> Append(paragraphs, strip(current_paragraph)),
                   current_paragraph |-> <<>>]
             ELSE [paragraphs |-> paragraphs, current_paragraph |-> current_paragraph]
        ELSE IF is_append(event)
        THEN [paragraphs |-> paragraphs,
              current_paragraph |-> current_paragraph \o <<" ">> \o strip(text)]
        ELSE [paragraphs |-> paragraphs, current_paragraph |-> strip(text)]

\* process_event with a break marker emitting the buffer without testing it.
process_event_emit_always(paragraphs, current_paragraph, event) ==
    LET text == event_text(event)
    IN  IF strip(text) = <<>>
        THEN [paragraphs |-> Append(paragraphs, strip(current_paragraph)),
              current_paragraph |-> <<>>]
        ELSE IF is_append(event)
        THEN [paragraphs |-> paragraphs,
              current_paragraph |-> current_paragraph \o <<" ">> \o strip(text)]
        ELSE [paragraphs |-> IF strip(current_paragraph) # <<>>
                             THEN Append(paragraphs, strip(current_paragraph))
                             ELSE paragraphs,
              current_paragraph |-> strip(text)]

\* process_event with the non-append branch extending the buffer it should replace.
process_event_extend(paragraphs, current_paragraph, event) ==
    LET text == event_text(event)
    IN  IF strip(text) = <<>>
        THEN IF strip(current_paragraph) # <<>>
             THEN [paragraphs |-> Append(paragraphs, strip(current_paragraph)),
                   current_paragraph |-> <<>>]
             ELSE [paragraphs |-> paragraphs, current_paragraph |-> current_paragraph]
        ELSE IF is_append(event)
        THEN [paragraphs |-> paragraphs,
              current_paragraph |-> current_paragraph \o <<" ">> \o strip(text)]
        ELSE [paragraphs |-> IF strip(current_paragraph) # <<>>
                             THEN Append(paragraphs, strip(current_paragraph))
                             ELSE paragraphs,
              current_paragraph |-> current_paragraph \o strip(text)]

\* process_event with an append into an empty buffer leaving out the space.
process_event_first_append(paragraphs, current_paragraph, event) ==
    LET text == event_text(event)
    IN  IF strip(text) = <<>>
        THEN IF strip(current_paragraph) # <<>>
             THEN [paragraphs |-> Append(paragraphs, strip(current_paragraph)),
                   current_paragraph |-> <<>>]
             ELSE [paragraphs |-> paragraphs, current_paragraph |-> current_paragraph]
        ELSE IF is_append(event)
        THEN [paragraphs |-> paragraphs,
              current_paragraph |-> IF current_paragraph = <<>> THEN strip(text)
                                    ELSE current_paragraph \o <<" ">> \o strip(text)]
        ELSE [paragraphs |-> IF strip(current_paragraph) # <<>>
                             THEN Append(paragraphs, strip(current_paragraph))
                             ELSE paragraphs,
              current_paragraph |-> strip(text)]

\* process_event with a break marker emitting the buffer and not clearing it.
process_event_keep(paragraphs, current_paragraph, event) ==
    LET text == event_text(event)
    IN  IF strip(text) = <<>>
        THEN IF strip(current_paragraph) # <<>>
             THEN [paragraphs |-> Append(paragraphs, strip(current_paragraph)),
                   current_paragraph |-> current_paragraph]
             ELSE [paragraphs |-> paragraphs, current_paragraph |-> current_paragraph]
        ELSE IF is_append(event)
        THEN [paragraphs |-> paragraphs,
              current_paragraph |-> current_paragraph \o <<" ">> \o strip(text)]
        ELSE [paragraphs |-> IF strip(current_paragraph) # <<>>
                             THEN Append(paragraphs, strip(current_paragraph))
                             ELSE paragraphs,
              current_paragraph |-> strip(text)]

\* process_event testing the text for emptiness without stripping it.
process_event_no_strip(paragraphs, current_paragraph, event) ==
    LET text == event_text(event)
    IN  IF text = <<>>
        THEN IF strip(current_paragraph) # <<>>
             THEN [paragraphs |-> Append(paragraphs, strip(current_paragraph)),
                   current_paragraph |-> <<>>]
             ELSE [paragraphs |-> paragraphs, current_paragraph |-> current_paragraph]
        ELSE IF is_append(event)
        THEN [paragraphs |-> paragraphs,
              current_paragraph |-> current_paragraph \o <<" ">> \o strip(text)]
        ELSE [paragraphs |-> IF strip(current_paragraph) # <<>>
                             THEN Append(paragraphs, strip(current_paragraph))
                             ELSE paragraphs,
              current_paragraph |-> strip(text)]

\* process_event emitting the buffer as it is, without stripping it.
process_event_raw_emit(paragraphs, current_paragraph, event) ==
    LET text == event_text(event)
    IN  IF strip(text) = <<>>
        THEN IF strip(current_paragraph) # <<>>
             THEN [paragraphs |-> Append(paragraphs, current_paragraph),
                   current_paragraph |-> <<>>]
             ELSE [paragraphs |-> paragraphs, current_paragraph |-> current_paragraph]
        ELSE IF is_append(event)
        THEN [paragraphs |-> paragraphs,
              current_paragraph |-> current_paragraph \o <<" ">> \o strip(text)]
        ELSE [paragraphs |-> IF strip(current_paragraph) # <<>>
                             THEN Append(paragraphs, current_paragraph)
                             ELSE paragraphs,
              current_paragraph |-> strip(text)]

\* One iteration of the loop: the locals paragraphs and current_paragraph after it.
process_event(paragraphs, current_paragraph, event) ==
    LET text == event_text(event)
    IN  IF strip(text) = <<>>
        THEN IF strip(current_paragraph) # <<>>
             THEN [paragraphs |-> Append(paragraphs, strip(current_paragraph)),
                   current_paragraph |-> <<>>]
             ELSE [paragraphs |-> paragraphs, current_paragraph |-> current_paragraph]
        ELSE IF is_append(event)
        THEN [paragraphs |-> paragraphs,
              current_paragraph |-> current_paragraph \o <<" ">> \o strip(text)]
        ELSE [paragraphs |-> IF strip(current_paragraph) # <<>>
                             THEN Append(paragraphs, strip(current_paragraph))
                             ELSE paragraphs,
              current_paragraph |-> strip(text)]

\* flush that emits the remaining text also when there is none.
flush_always(paragraphs, current_paragraph) ==
    Append(paragraphs, strip(current_paragraph))

\* flush that forgets the remaining text.
flush_nothing(paragraphs, current_paragraph) == paragraphs

\* After the loop: the remaining text becomes the last paragraph.
flush(paragraphs, current_paragraph) ==
    IF strip(current_paragraph) # <<>>
    THEN Append(paragraphs, strip(current_paragraph))
    ELSE paragraphs

\* The whole pass over a list of events, as a function of the list.
RECURSIVE run_events(_, _, _)
run_events(paragraphs, current_paragraph, events) ==
    IF events = <<>> THEN flush(paragraphs, current_paragraph)
    ELSE LET after == process_event(paragraphs, current_paragraph, Head(events))
         IN  run_events(after.paragraphs, after.current_paragraph, Tail(events))

paragraphs_of(events) == run_events(<<>>, <<>>, events)

(***************************************************************************)
(* The activations of parse_cc.                                            *)
(***************************************************************************)
NewFrame ==
    [pc |-> "idle", source |-> <<>>, out_file |-> None, output_file |-> None,
     response |-> NoResponse, data |-> [events |-> <<>>], next |-> 1,
     paragraphs |-> <<>>, current_paragraph |-> <<>>, ret |-> None, exc |-> ""]

\* data.get("events", [])
events_of(f) == Get(f.data.events, <<>>)

\* No metadata operation is in progress.
NoMeta == [fn |-> "", pc |-> "idle"]

\* No PromptManager and no SummaryGUI have been constructed.
NoWindows == pm = None /\ gui = None

\* parse_cc called on its own: the rest of the program is at rest.
OthersAtRest == mtime = <<>> /\ now = 0 /\ meta = NoMeta /\ NoWindows

Init ==
    /\ \E d \in Docs : remote = d /\ fs = [q \in {LocalFile} |-> d]
    /\ calls = [p \in {1} |-> NewFrame]
    /\ OthersAtRest

\* parse_cc(source, out_file, output_file=...) is called.
parse_cc_call(p, source, out_file, output_file) ==
    /\ calls[p].pc = "idle"
    /\ calls' = [calls EXCEPT ![p] = [@ EXCEPT !.pc = "load", !.source = source,
                                               !.out_file = out_file,
                                               !.output_file = output_file]]
    /\ UNCHANGED <<fs, remote>>
    /\ UNCHANGED others

\* Lines 178-184: load the data; a RuntimeError ends the call with None.
parse_cc_load(p, response) ==
    /\ calls[p].pc = "load"
    /\ LET f == calls[p]
           r == IF startswith(f.source, URL_PREFIXES) THEN response ELSE NoResponse
           got == load_data(f.source, r)
       IN  calls' = [calls EXCEPT ![p] =
             IF got.raises = "RuntimeError"
             THEN [f EXCEPT !.pc = "done", !.response = r, !.ret = None]
             ELSE IF got.raises # ""
             THEN [f EXCEPT !.pc = "raised", !.response = r, !.exc = got.raises]
             ELSE [f EXCEPT !.pc = "loop", !.response = r, !.data = got.value,
                            !.next = 1, !.paragraphs = <<>>,
                            !.current_paragraph = <<>>]]
    /\ UNCHANGED <<fs, remote>>
    /\ UNCHANGED others

\* parse_cc_event staying at a break marker instead of moving on.
parse_cc_event_stays(p) ==
    /\ calls[p].pc = "loop"
    /\ calls[p].next <= Len(events_of(calls[p]))
    /\ LET f == calls[p]
           after == process_event(f.paragraphs, f.current_paragraph,
                                  events_of(f)[f.next])
       IN  calls' = [calls EXCEPT ![p] =
             [f EXCEPT !.next = IF strip(event_text(events_of(f)[f.next])) = <<>>
                                THEN f.next ELSE f.next + 1,
                       !.paragraphs = after.paragraphs,
                       !.current_paragraph = after.current_paragraph]]
    /\ UNCHANGED <<fs, remote>>
    /\ UNCHANGED others

\* parse_cc_event with one accumulation buffer for all invocations.
parse_cc_event_shared(p) ==
    /\ calls[p].pc = "loop"
    /\ calls[p].next <= Len(events_of(calls[p]))
    /\ LET f == calls[p]
           after == process_event(f.paragraphs, calls[1].current_paragraph,
                                  events_of(f)[f.next])
       IN  calls' = [calls EXCEPT ![p] =
             [f EXCEPT !.next = f.next + 1, !.paragraphs = after.paragraphs,
                       !.current_paragraph = after.current_paragraph]]
    /\ UNCHANGED <<fs, remote>>
    /\ UNCHANGED others

\* Lines 187-206: one iteration of the loop.
parse_cc_event(p) ==
    /\ calls[p].pc = "loop"
    /\ calls[p].next <= Len(events_of(calls[p]))
    /\ LET f == calls[p]
           after == process_event(f.paragraphs, f.current_paragraph,
                                  events_of(f)[f.next])
       IN  calls' = [calls EXCEPT ![p] =
             [f EXCEPT !.next = f.next + 1, !.paragraphs = after.paragraphs,
                       !.current_paragraph = after.current_paragraph]]
    /\ UNCHANGED <<fs, remote>>
    /\ UNCHANGED others

\* Lines 208-210: the loop is over.
parse_cc_flush(p) ==
    /\ calls[p].pc = "loop"
    /\ calls[p].next > Len(events_of(calls[p]))
    /\ calls' = [calls EXCEPT ![p] =
         [@ EXCEPT !.pc = "write_out",
                   !.paragraphs = flush(@, calls[p].current_paragraph)]]
    /\ UNCHANGED <<fs, remote>>
    /\ UNCHANGED others

\* parse_cc_write_out catching the failure of the write and returning the paragraphs.
parse_cc_write_out_returns(p) ==
    /\ calls[p].pc = "write_out"
    /\ \/ /\ fs' = written(fs, str(calls[p].out_file),
                           join(<<" ">>, calls[p].paragraphs))
          /\ calls' = [calls EXCEPT ![p].pc = "write_extra"]
       \/ /\ calls' = [calls EXCEPT ![p].pc = "done",
                                    ![p].ret = PyList(calls[p].paragraphs)]
          /\ UNCHANGED fs
    /\ UNCHANGED remote
    /\ UNCHANGED others

\* Lines 212-213: open(str(out_file), 'w') and write; the open can fail.
parse_cc_write_out(p) ==
    /\ calls[p].pc = "write_out"
    /\ \/ /\ fs' = written(fs, str(calls[p].out_file),
                           join(<<" ">>, calls[p].paragraphs))
          /\ calls' = [calls EXCEPT ![p].pc = "write_extra"]
       \/ /\ calls' = [calls EXCEPT ![p].pc = "raised", ![p].exc = "OSError"]
          /\ UNCHANGED fs
    /\ UNCHANGED remote
    /\ UNCHANGED others

\* parse_cc_write_extra ignoring the failure of the write of the second destination.
parse_cc_write_extra_ignores(p) ==
    /\ calls[p].pc = "write_extra"
    /\ \/ /\ truthy(calls[p].output_file)
          /\ \/ fs' = written(fs, calls[p].output_file.v,
                              join(<<" ">>, calls[p].paragraphs))
             \/ UNCHANGED fs
       \/ /\ ~truthy(calls[p].output_file)
          /\ UNCHANGED fs
    /\ calls' = [calls EXCEPT ![p].pc = "done", ![p].ret = PyList(calls[p].paragraphs)]
    /\ UNCHANGED remote
    /\ UNCHANGED others

\* parse_cc_write_extra writing the paragraphs of the second destination one per line.
parse_cc_write_extra_lines(p) ==
    /\ calls[p].pc = "write_extra"
    /\ \/ /\ truthy(calls[p].output_file)
          /\ \/ /\ fs' = written(fs, calls[p].output_file.v,
                                 join(<<"\n">>, calls[p].paragraphs))
                /\ calls' = [calls EXCEPT ![p].pc = "done",
                                          ![p].ret = PyList(calls[p].paragraphs)]
             \/ /\ calls' = [calls EXCEPT ![p].pc = "raised", ![p].exc = "OSError"]
                /\ UNCHANGED fs
       \/ /\ ~truthy(calls[p].output_file)
          /\ calls' = [calls EXCEPT ![p].pc = "done",
                                    ![p].ret = PyList(calls[p].paragraphs)]
          /\ UNCHANGED fs
    /\ UNCHANGED remote
    /\ UNCHANGED others

\* Lines 215-219: the second destination, when given, and the return.
parse_cc_write_extra(p) ==
    /\ calls[p].pc = "write_extra"
    /\ \/ /\ truthy(calls[p].output_file)
          /\ \/ /\ fs' = written(fs, calls[p].output_file.v,
                                 join(<<" ">>, calls[p].paragraphs))
                /\ calls' = [calls EXCEPT ![p].pc = "done",
                                          ![p].ret = PyList(calls[p].paragraphs)]
             \/ /\ calls' = [calls EXCEPT ![p].pc = "raised", ![p].exc = "OSError"]
                /\ UNCHANGED fs
       \/ /\ ~truthy(calls[p].output_file)
          /\ calls' = [calls EXCEPT ![p].pc = "done",
                                    ![p].ret = PyList(calls[p].paragraphs)]
          /\ UNCHANGED fs
    /\ UNCHANGED remote
    /\ UNCHANGED others

Next ==
    \/ \E p \in DOMAIN calls, s \in Sources, a \in CallArgs : parse_cc_call(p, s, a[1], a[2])
    \/ \E p \in DOMAIN calls, r \in Responses : parse_cc_load(p, r)
    \/ \E p \in DOMAIN calls : parse_cc_event(p)
    \/ \E p \in DOMAIN calls : parse_cc_flush(p)
    \/ \E p \in DOMAIN calls : parse_cc_write_out(p)
    \/ \E p \in DOMAIN calls : parse_cc_write_extra(p)

Spec == Init /\ [][Next]_vars

(***************************************************************************)
(* The vocabulary of the properties, stated apart from the code above.     *)
(***************************************************************************)
\* The concatenation of a list of strings, with no separator.
RECURSIVE Concat(_)
Concat(strs) == IF strs = <<>> THEN <<>> ELSE Head(strs) \o Concat(Tail(strs))

\* The strings of a list written one after the other with one space between two.
RECURSIVE SpaceJoin(_)
SpaceJoin(strs) ==
    IF strs = <<>> THEN <<>>
    ELSE IF Len(strs) = 1 THEN strs[1]
    ELSE SpaceJoin(SubSeq(strs, 1, Len(strs) - 1)) \o <<" ">> \o strs[Len(strs)]

\* An event's text: its segments' texts (the field utf8), in order.
TextOf(e) ==
    LET segs == IF e.segs = <<>> THEN <<>> ELSE e.segs[1]
    IN  Concat([k \in 1..Len(segs) |-> IF segs[k].utf8 = <<>> THEN <<>> ELSE segs[k].utf8[1]])

IsBlank(s) == \A k \in 1..Len(s) : s[k] \in Whitespace
BlankEvent(e) == IsBlank(TextOf(e))
AppendEvent(e) == e.aAppend # <<>> /\ e.aAppend[1] \in {PyInt(1), PyBool(TRUE)}

\* The stripped texts of the non-blank events, in input order.
StrippedTexts(events) ==
    LET kept == SelectSeq(events, LAMBDA e : ~BlankEvent(e))
    IN  [k \in 1..Len(kept) |-> strip(TextOf(kept[k]))]

\* parse_cc has returned a list.
ReturnedList(p) == calls[p].pc = "done" /\ calls[p].ret.t = "list"

\* C1: parse_cc neither drops, duplicates nor reorders non-blank event text: the
\* single-space join of the returned paragraphs is the single-space join of the
\* stripped texts of the non-blank events in input order.
C1_TextPreserved ==
    \A p \in DOMAIN calls :
        ReturnedList(p) =>
            SpaceJoin(calls[p].ret.v) = SpaceJoin(StrippedTexts(events_of(calls[p])))

\* Three non-blank events were returned as two paragraphs.
C1_Witness ==
    \E p \in DOMAIN calls :
        /\ ReturnedList(p)
        /\ Len(events_of(calls[p])) = 3
        /\ \A k \in 1..3 : ~BlankEvent(events_of(calls[p])[k])
        /\ Len(calls[p].ret.v) = 2

\* C2: no paragraph parse_cc collects or returns is empty or whitespace-only.
C2_NoBlankParagraph ==
    \A p \in DOMAIN calls :
        /\ \A k \in 1..Len(calls[p].paragraphs) : ~IsBlank(calls[p].paragraphs[k])
        /\ ReturnedList(p) => \A k \in 1..Len(calls[p].ret.v) : ~IsBlank(calls[p].ret.v[k])

\* A list was returned for events that begin with two whitespace-only break markers.
C2_Witness ==
    \E p \in DOMAIN calls :
        /\ ReturnedList(p)
        /\ Len(events_of(calls[p])) = 3
        /\ \A k \in 1..2 : BlankEvent(events_of(calls[p])[k])
                           /\ TextOf(events_of(calls[p])[k]) # <<>>
        /\ Len(calls[p].ret.v) = 1

(***************************************************************************)
(* The steps of the loop, as seen from outside.                            *)
(***************************************************************************)
\* Activation p processes its next event in this step.
EventStep(p) ==
    /\ calls[p].pc = "loop" /\ calls'[p].pc = "loop"
    /\ calls'[p].next = calls[p].next + 1

\* The event that an activation in the loop is about to process.
NextEvent(p) == events_of(calls[p])[calls[p].next]

\* The event that an activation in the loop has just processed.
LastEvent(p) == events_of(calls[p])[calls[p].next - 1]

\* Activation p is in the loop and has processed at least n events.
Processed(p, n) == calls[p].pc = "loop" /\ calls[p].next > n

\* C3: on a non-append event with non-blank text, a non-blank buffer is first emitted
\* as exactly one paragraph (stripped), a blank buffer emits nothing, and the buffer
\* afterwards is exactly the stripped text of the event.
C3_NonAppendReplaces ==
    [][\A p \in DOMAIN calls :
        (EventStep(p) /\ ~BlankEvent(NextEvent(p)) /\ ~AppendEvent(NextEvent(p))) =>
            /\ calls'[p].paragraphs =
                 IF IsBlank(calls[p].current_paragraph) THEN calls[p].paragraphs
                 ELSE Append(calls[p].paragraphs, strip(calls[p].current_paragraph))
            /\ calls'[p].current_paragraph = strip(TextOf(NextEvent(p)))]_vars

\* A non-append event has replaced a buffer that held two events' text.
C3_Witness ==
    \E p \in DOMAIN calls :
        /\ Processed(p, 3)
        /\ ~BlankEvent(events_of(calls[p])[1])
        /\ ~BlankEvent(events_of(calls[p])[2]) /\ AppendEvent(events_of(calls[p])[2])
        /\ ~BlankEvent(LastEvent(p)) /\ ~AppendEvent(LastEvent(p))
        /\ Len(calls[p].paragraphs) = 1
        /\ calls[p].current_paragraph = strip(TextOf(LastEvent(p)))

\* C4: on an append event with non-blank text the emitted paragraphs are unchanged,
\* also when the buffer is empty, and the buffer becomes the old buffer, one space and
\* the stripped text of the event.
C4_AppendExtends ==
    [][\A p \in DOMAIN calls :
        (EventStep(p) /\ ~BlankEvent(NextEvent(p)) /\ AppendEvent(NextEvent(p))) =>
            /\ calls'[p].paragraphs = calls[p].paragraphs
            /\ calls'[p].current_paragraph =
                 calls[p].current_paragraph \o <<" ">> \o strip(TextOf(NextEvent(p)))]_vars

\* An append event has entered an empty buffer right after a break marker's flush.
C4_Witness ==
    \E p \in DOMAIN calls :
        /\ Processed(p, 3)
        /\ ~BlankEvent(events_of(calls[p])[1])
        /\ BlankEvent(events_of(calls[p])[2])
        /\ ~BlankEvent(LastEvent(p)) /\ AppendEvent(LastEvent(p))
        /\ Len(calls[p].paragraphs) = 1
        /\ calls[p].current_paragraph = <<" ">> \o strip(TextOf(LastEvent(p)))

\* C5: on a break marker a non-blank buffer is emitted as exactly one paragraph
\* (stripped) and the buffer becomes empty; a blank buffer leaves the paragraphs and
\* the buffer unchanged.
C5_BreakFlushes ==
    [][\A p \in DOMAIN calls :
        (EventStep(p) /\ BlankEvent(NextEvent(p))) =>
            IF IsBlank(calls[p].current_paragraph)
            THEN /\ calls'[p].paragraphs = calls[p].paragraphs
                 /\ calls'[p].current_paragraph = calls[p].current_paragraph
            ELSE /\ calls'[p].paragraphs =
                      Append(calls[p].paragraphs, strip(calls[p].current_paragraph))
                 /\ calls'[p].current_paragraph = <<>>]_vars

\* A whitespace-only event has flushed a buffer that an append event had entered.
C5_Witness ==
    \E p \in DOMAIN calls :
        /\ Processed(p, 2)
        /\ calls[p].next = 3
        /\ ~BlankEvent(events_of(calls[p])[1]) /\ AppendEvent(events_of(calls[p])[1])
        /\ BlankEvent(LastEvent(p)) /\ TextOf(LastEvent(p)) # <<>>
        /\ calls[p].paragraphs = << strip(TextOf(events_of(calls[p])[1])) >>
        /\ calls[p].current_paragraph = <<>>

\* s ends with the string t.
EndsWith(s, t) == Len(s) >= Len(t) /\ SubSeq(s, Len(s) - Len(t) + 1, Len(s)) = t

\* Activation p leaves the loop in this step.
FlushStep(p) == calls[p].pc = "loop" /\ calls'[p].pc # "loop"

\* C6: after the last event a non-blank buffer is emitted, stripped, as the final
\* paragraph and a blank buffer emits nothing; so the text of a last event that is
\* not blank ends the last returned paragraph.
C6_FinalFlush ==
    /\ [][\A p \in DOMAIN calls :
            FlushStep(p) =>
                calls'[p].paragraphs =
                  IF IsBlank(calls[p].current_paragraph) THEN calls[p].paragraphs
                  ELSE Append(calls[p].paragraphs, strip(calls[p].current_paragraph))]_vars
    /\ [](\A p \in DOMAIN calls :
            (/\ ReturnedList(p)
             /\ events_of(calls[p]) # <<>>
             /\ ~BlankEvent(events_of(calls[p])[Len(events_of(calls[p]))])) =>
                /\ calls[p].ret.v # <<>>
                /\ EndsWith(calls[p].ret.v[Len(calls[p].ret.v)],
                            strip(TextOf(events_of(calls[p])[Len(events_of(calls[p]))]))))

\* A list was returned whose last paragraph is a trailing run of two events that no
\* break marker follows.
C6_Witness ==
    \E p \in DOMAIN calls :
        /\ ReturnedList(p)
        /\ Len(events_of(calls[p])) = 3
        /\ BlankEvent(events_of(calls[p])[1])
        /\ ~BlankEvent(events_of(calls[p])[2])
        /\ ~BlankEvent(events_of(calls[p])[3]) /\ AppendEvent(events_of(calls[p])[3])
        /\ Len(calls[p].ret.v) = 1
        /\ EndsWith(calls[p].ret.v[1], strip(TextOf(events_of(calls[p])[3])))

(***************************************************************************)
(* Whole-pass properties.                                                  *)
(***************************************************************************)
events_with(events, k, e) == [events EXCEPT ![k] = e]

Flags == {Absent, Append1, <<PyBool(TRUE)>>, <<PyInt(0)>>}
WhitespaceOnlyEvents ==
    { Ev(<< Seg(w) >>, f) : w \in { <<"\n">>, <<" ", "\t">> }, f \in Flags }
    \cup { Ev(<< Seg(<<" ">>), Seg(<<"\n">>) >>, f) : f \in Flags }

\* C7: an event whose joined text is whitespace-only and an event with no segments
\* are interchangeable, whatever the aAppend flag of either: the list returned for
\* the events is the list of the pass over the events with one replaced by the other.
C7_WhitespaceIsBreak ==
    \A p \in DOMAIN calls :
        ReturnedList(p) =>
            \A k \in 1..Len(events_of(calls[p])) :
                LET e == events_of(calls[p])[k]
                IN  /\ (BlankEvent(e) /\ TextOf(e) # <<>>) =>
                          \A f \in Flags :
                              paragraphs_of(events_with(events_of(calls[p]), k, Ev(<<>>, f)))
                                = calls[p].ret.v
                    /\ e.segs = << <<>> >> =>
                          \A w \in WhitespaceOnlyEvents :
                              paragraphs_of(events_with(events_of(calls[p]), k, w))
                                = calls[p].ret.v

\* A list was returned for a whitespace-only append event between two events with text.
C7_Witness ==
    \E p \in DOMAIN calls :
        /\ ReturnedList(p)
        /\ Len(events_of(calls[p])) = 3
        /\ ~BlankEvent(events_of(calls[p])[1])
        /\ BlankEvent(events_of(calls[p])[2]) /\ TextOf(events_of(calls[p])[2]) # <<>>
        /\ AppendEvent(events_of(calls[p])[2])
        /\ ~BlankEvent(events_of(calls[p])[3]) /\ AppendEvent(events_of(calls[p])[3])
        /\ Len(calls[p].ret.v) = 2

\* The input is one non-append event with one segment.
OneSegmentInput(p) ==
    /\ Len(events_of(calls[p])) = 1
    /\ ~AppendEvent(events_of(calls[p])[1])
    /\ events_of(calls[p])[1].segs # <<>>
    /\ Len(events_of(calls[p])[1].segs[1]) = 1

TheSegment(p) == events_of(calls[p])[1].segs[1][1]

\* C8 as claimed: for one non-append event with the single segment {"text": T},
\* T non-blank, parse_cc returns [strip(T)].
C8_TextField ==
    \A p \in DOMAIN calls :
        (/\ ReturnedList(p) /\ OneSegmentInput(p)
         /\ TheSegment(p).utf8 = <<>>
         /\ TheSegment(p).text # <<>> /\ ~IsBlank(TheSegment(p).text[1])) =>
            calls[p].ret.v = << strip(TheSegment(p).text[1]) >>

\* C8, amended: a segment's text is read from its field utf8: for one non-append
\* event with the single segment {"utf8": T}, T non-blank, parse_cc returns
\* [strip(T)]; with the single segment {"text": T} it returns the empty list.
C8_Utf8Field ==
    \A p \in DOMAIN calls :
        (ReturnedList(p) /\ OneSegmentInput(p)) =>
            /\ (TheSegment(p).utf8 # <<>> /\ ~IsBlank(TheSegment(p).utf8[1])) =>
                  calls[p].ret.v = << strip(TheSegment(p).utf8[1]) >>
            /\ TheSegment(p).utf8 = <<>> => calls[p].ret.v = <<>>

\* [strip(T)] was returned for the one segment {"utf8": T}, T with whitespace to strip.
C8_Witness ==
    \E p \in DOMAIN calls :
        /\ ReturnedList(p) /\ OneSegmentInput(p)
        /\ TheSegment(p).utf8 # <<>> /\ ~IsBlank(TheSegment(p).utf8[1])
        /\ strip(TheSegment(p).utf8[1]) # TheSegment(p).utf8[1]
        /\ calls[p].ret.v = << strip(TheSegment(p).utf8[1]) >>

\* The stripped texts of the events that make up each paragraph: a break marker closes
\* the open group, a non-append event closes it and opens a new one, an append event
\* joins the open group (or opens one).
RECURSIVE Grouped(_, _, _)
Grouped(events, groups, open) ==
    LET closed == IF open = <<>> THEN groups ELSE Append(groups, open)
    IN  IF events = <<>> THEN closed
        ELSE IF BlankEvent(Head(events)) THEN Grouped(Tail(events), closed, <<>>)
        ELSE IF AppendEvent(Head(events))
        THEN Grouped(Tail(events), groups, Append(open, strip(TextOf(Head(events)))))
        ELSE Grouped(Tail(events), closed, << strip(TextOf(Head(events))) >>)

ContributingTexts(events) == Grouped(events, <<>>, <<>>)

\* C9: every returned paragraph has no leading or trailing whitespace and is the
\* stripped texts of its contributing events separated by exactly one space, also
\* when the first event entering an empty buffer is an append event.
C9_ParagraphShape ==
    \A p \in DOMAIN calls :
        ReturnedList(p) =>
            LET groups == ContributingTexts(events_of(calls[p]))
                ret == calls[p].ret.v
            IN  /\ Len(ret) = Len(groups)
                /\ \A k \in 1..Len(ret) :
                      /\ ret[k] = SpaceJoin(groups[k])
                      /\ ret[k] # <<>>
                      /\ ret[k][1] \notin Whitespace
                      /\ ret[k][Len(ret[k])] \notin Whitespace

\* A list was returned whose first paragraph began with an append event entering the
\* empty buffer and whose second did so after a break marker.
C9_Witness ==
    \E p \in DOMAIN calls :
        /\ ReturnedList(p)
        /\ Len(events_of(calls[p])) = 3
        /\ ~BlankEvent(events_of(calls[p])[1]) /\ AppendEvent(events_of(calls[p])[1])
        /\ BlankEvent(events_of(calls[p])[2])
        /\ ~BlankEvent(events_of(calls[p])[3]) /\ AppendEvent(events_of(calls[p])[3])
        /\ Len(calls[p].ret.v) = 2

(***************************************************************************)
(* Failure to retrieve the source.                                         *)
(***************************************************************************)
\* load_data was attempted and the source could not be retrieved: the request failed
\* at the network level, the answer was not 200, or the source is neither a URL nor an
\* existing file.
Unretrievable(p) ==
    /\ calls[p].pc \notin {"idle", "load"}
    /\ IF startswith(calls[p].source, URL_PREFIXES)
       THEN calls[p].response.raised \/ calls[p].response.status_code # 200
       ELSE calls[p].source \notin DOMAIN fs

\* No destination has been written: the files are those of the initial state.
NothingWritten == DOMAIN fs = {LocalFile} /\ fs[LocalFile] = remote

\* C10: if the caption source cannot be retrieved, parse_cc does not raise: it returns
\* None, processes no events and writes no destination file.
C10_SoftFail ==
    \A p \in DOMAIN calls :
        Unretrievable(p) =>
            /\ calls[p].pc = "done" /\ calls[p].ret = None
            /\ calls[p].next = 1 /\ calls[p].paragraphs = <<>>
            /\ NothingWritten

(***************************************************************************)
(* Writing the destinations.                                               *)
(***************************************************************************)
\* Activation p tries to write a destination in this step and the write fails: the
\* step is taken and no file is created or changed.
FailedWrite(p) ==
    /\ \/ calls[p].pc = "write_out"
       \/ calls[p].pc = "write_extra" /\ truthy(calls[p].output_file)
    /\ calls'[p] # calls[p]
    /\ fs' = fs

\* parse_cc raised the I/O error of a failed write.
WriteRaised(p) == calls[p].pc = "raised" /\ calls[p].exc = "OSError"

\* C11 as claimed: when writing a destination fails, the computed paragraphs are still
\* returned to the caller.
C11_StillReturned ==
    \A p \in DOMAIN calls : WriteRaised(p) => calls[p].ret = PyList(calls[p].paragraphs)

\* C11, amended: when writing a destination fails, parse_cc ends by raising and
\* returns no value; the paragraphs it had computed are unchanged by the failure but
\* are not handed to the caller.
C11_NothingReturned ==
    [][\A p \in DOMAIN calls :
        FailedWrite(p) =>
            /\ calls'[p].pc # "done"
            /\ calls'[p].ret = None
            /\ calls'[p].paragraphs = calls[p].paragraphs]_vars

\* The second destination could not be written after two paragraphs were computed and
\* the first destination was written.
C11_Witness ==
    \E p \in DOMAIN calls :
        /\ WriteRaised(p)
        /\ Len(calls[p].paragraphs) = 2
        /\ calls[p].ret = None
        /\ OutTxt \in DOMAIN fs /\ ExtraTxt \notin DOMAIN fs

\* C12: a failure to create or write a destination is propagated as an I/O error:
\* the step of a failed write ends parse_cc with OSError raised, and parse_cc never
\* returns a list unless every destination it was to write exists.
C12_WriteFailurePropagates ==
    /\ [][\A p \in DOMAIN calls :
            FailedWrite(p) => calls'[p].pc = "raised" /\ calls'[p].exc = "OSError"]_vars
    /\ [](\A p \in DOMAIN calls :
            ReturnedList(p) =>
                /\ str(calls[p].out_file) \in DOMAIN fs
                /\ truthy(calls[p].output_file) => calls[p].output_file.v \in DOMAIN fs)

\* The first destination could not be created: OSError was raised and no file written.
C12_Witness ==
    \E p \in DOMAIN calls :
        /\ WriteRaised(p)
        /\ calls[p].out_file = PyStr(OutTxt)
        /\ Len(calls[p].paragraphs) = 1
        /\ DOMAIN fs = {LocalFile}

(***************************************************************************)
(* Malformed events.                                                       *)
(***************************************************************************)
\* An event record without segs, or with a segment that has no utf8 field.
Malformed(e) ==
    \/ e.segs = <<>>
    \/ \E k \in 1..Len(e.segs[1]) : e.segs[1][k].utf8 = <<>>

\* The event with every missing field present and empty.
Repaired(e) ==
    LET segs == IF e.segs = <<>> THEN <<>> ELSE e.segs[1]
    IN  [segs |-> << [k \in 1..Len(segs) |->
                        [utf8 |-> IF segs[k].utf8 = <<>> THEN << <<>> >> ELSE segs[k].utf8,
                         text |-> segs[k].text]] >>,
         aAppend |-> e.aAppend]

\* C13: an event without segs, or with a segment without its text field, is processed
\* as if the missing field were there and empty: no error is raised in the loop, every
\* event of the sequence is processed, and the list returned is that of the repaired
\* events.
C13_MalformedIsEmpty ==
    \A p \in DOMAIN calls :
        /\ calls[p].pc = "raised" =>
              calls[p].exc \in {"ConnectionError", "JSONDecodeError", "OSError"}
        /\ (ReturnedList(p) \/ WriteRaised(p)) =>
              calls[p].next = Len(events_of(calls[p])) + 1
        /\ ReturnedList(p) =>
              calls[p].ret.v =
                paragraphs_of([k \in 1..Len(events_of(calls[p])) |->
                                 Repaired(events_of(calls[p])[k])])

\* A list of two paragraphs was returned for an event whose segment has no utf8 field,
\* between two events with text.
C13_Witness ==
    \E p \in DOMAIN calls :
        /\ ReturnedList(p)
        /\ Len(events_of(calls[p])) = 3
        /\ ~BlankEvent(events_of(calls[p])[1])
        /\ Malformed(events_of(calls[p])[2]) /\ events_of(calls[p])[2].segs # <<>>
        /\ ~BlankEvent(events_of(calls[p])[3]) /\ AppendEvent(events_of(calls[p])[3])
        /\ Len(calls[p].ret.v) = 2

\* C14: after parse_cc has returned a list, every destination it wrote (str(out_file)
\* and, when given, output_file) holds exactly the returned paragraphs joined by one
\* space each, and the destinations hold the same content.
C14_ReadBack ==
    \A p \in DOMAIN calls :
        ReturnedList(p) =>
            /\ str(calls[p].out_file) \in DOMAIN fs
            /\ fs[str(calls[p].out_file)] = Text(SpaceJoin(calls[p].ret.v))
            /\ truthy(calls[p].output_file) =>
                  /\ calls[p].output_file.v \in DOMAIN fs
                  /\ fs[calls[p].output_file.v] = Text(SpaceJoin(calls[p].ret.v))
                  /\ fs[calls[p].output_file.v] = fs[str(calls[p].out_file)]

\* Two paragraphs, one with a space inside, were returned and written to both
\* destinations.
C14_Witness ==
    \E p \in DOMAIN calls :
        /\ ReturnedList(p)
        /\ Len(calls[p].ret.v) = 2
        /\ \E k \in 1..2 : \E j \in 1..Len(calls[p].ret.v[k]) : calls[p].ret.v[k][j] = " "
        /\ {OutTxt, ExtraTxt} \subseteq DOMAIN fs

\* C15 as claimed: called with a retrievable source and no out_file, parse_cc returns
\* the paragraphs and creates or modifies no file.
C15_NoFileWithoutOutFile ==
    \A p \in DOMAIN calls :
        (ReturnedList(p) /\ calls[p].out_file = None) => NothingWritten

(***************************************************************************)
(* Two invocations of parse_cc at once.                                    *)
(***************************************************************************)
MaxEventsEach == 2

\* The events of the documents that two invocations work on.
EventsTwo ==
    { Ev(<< Seg(<<"a", "\n">>) >>, Absent),
      Ev(<< Seg(<<" ", "b">>), Seg(<<" ", "c", "\n">>) >>, Append1),
      Ev(<< Seg(<<"\n">>) >>, Absent) }

DocsTwo ==
    { JsonDoc([events |-> <<es>>]) :
        es \in UNION { [1..n -> EventsTwo] : n \in 0..MaxEventsEach } }

\* Activation 1 is parse_cc("cc.json", "out.txt"), activation 2 is
\* parse_cc("https://y/c", "extra.txt").
SourceTwo == <<LocalFile, CaptionUrl>>
DestinationTwo == <<OutTxt, ExtraTxt>>

\* The file and the remote document differ; each activation has its own frame, as a
\* Python call has its own local variables.
InitTwo ==
    /\ \E d1 \in DocsTwo, d2 \in DocsTwo :
          d1 # d2 /\ fs = [q \in {LocalFile} |-> d1] /\ remote = d2
    /\ calls = [p \in {1, 2} |-> NewFrame]
    /\ OthersAtRest

NextTwo ==
    \/ \E p \in DOMAIN calls : parse_cc_call(p, SourceTwo[p], PyStr(DestinationTwo[p]), None)
    \/ \E p \in DOMAIN calls, r \in Responses : parse_cc_load(p, r)
    \/ \E p \in DOMAIN calls : parse_cc_event(p)
    \/ \E p \in DOMAIN calls : parse_cc_flush(p)
    \/ \E p \in DOMAIN calls : parse_cc_write_out(p)
    \/ \E p \in DOMAIN calls : parse_cc_write_extra(p)

SpecTwo == InitTwo /\ [][NextTwo]_vars

\* The document behind the source of activation p.
DocumentOf(p) ==
    IF startswith(calls[p].source, URL_PREFIXES) THEN remote ELSE fs[calls[p].source]

\* What parse_cc returns for a document when nothing else runs: one paragraph per
\* group of contributing events.
AloneResult(doc) ==
    LET groups == ContributingTexts(Get(doc.v.events, <<>>))
    IN  [k \in 1..Len(groups) |-> SpaceJoin(groups[k])]

\* C16: two invocations of parse_cc on different sources and destinations, interleaved
\* in any order, share no reconstruction state: a step of one leaves the frame of the
\* other unchanged, and each returns the list it returns when run alone.
C16_Independent ==
    /\ [][\A p \in DOMAIN calls, q \in DOMAIN calls :
            (p # q /\ calls'[p] # calls[p]) => calls'[q] = calls[q]]_vars
    /\ [](\A p \in DOMAIN calls :
            ReturnedList(p) => calls[p].ret.v = AloneResult(DocumentOf(p)))

\* Both invocations have returned, each its own non-empty list.
C16_Witness ==
    /\ DOMAIN calls = {1, 2}
    /\ ReturnedList(1) /\ ReturnedList(2)
    /\ Len(calls[1].ret.v) = 2 /\ Len(calls[2].ret.v) = 1
    /\ calls[1].ret.v[1] # calls[2].ret.v[1]
    /\ fs[OutTxt] # fs[ExtraTxt]

(***************************************************************************)
(* The aAppend flag, the empty input, order and termination.               *)
(***************************************************************************)
\* C17: an event with text whose aAppend is the integer 1 or the boolean true
\* continues the buffer; one whose aAppend is absent starts a new buffer.
C17_FlagValues ==
    [][\A p \in DOMAIN calls :
        (EventStep(p) /\ ~BlankEvent(NextEvent(p))) =>
            /\ NextEvent(p).aAppend \in { <<PyInt(1)>>, <<PyBool(TRUE)>> } =>
                  /\ calls'[p].paragraphs = calls[p].paragraphs
                  /\ calls'[p].current_paragraph =
                       calls[p].current_paragraph \o <<" ">> \o strip(TextOf(NextEvent(p)))
            /\ NextEvent(p).aAppend = <<>> =>
                  calls'[p].current_paragraph = strip(TextOf(NextEvent(p)))]_vars

\* An event whose aAppend is true has continued the buffer of the event before it.
C17_Witness ==
    \E p \in DOMAIN calls :
        /\ Processed(p, 2)
        /\ calls[p].next = 3
        /\ ~BlankEvent(events_of(calls[p])[1])
        /\ events_of(calls[p])[1].aAppend = <<>>
        /\ ~BlankEvent(LastEvent(p))
        /\ LastEvent(p).aAppend = <<PyBool(TRUE)>>
        /\ calls[p].paragraphs = <<>>
        /\ calls[p].current_paragraph =
             strip(TextOf(events_of(calls[p])[1])) \o <<" ">> \o strip(TextOf(LastEvent(p)))

\* C18: for a document with zero events, or without the events key, parse_cc returns
\* the empty list.
C18_EmptyInput ==
    \A p \in DOMAIN calls :
        (ReturnedList(p) /\ calls[p].data.events \in { <<>>, << <<>> >> }) =>
            calls[p].ret.v = <<>>

\* The empty list was returned for a document that has no events key, and the empty
\* text was written.
C18_Witness ==
    \E p \in DOMAIN calls :
        /\ ReturnedList(p)
        /\ calls[p].data.events = <<>>
        /\ calls[p].ret.v = <<>>
        /\ OutTxt \in DOMAIN fs /\ fs[OutTxt] = Text(<<>>)

\* s is the beginning of t.
IsPrefix(s, t) == Len(s) <= Len(t) /\ SubSeq(t, 1, Len(s)) = s

\* Event k opens a paragraph: it has text, and it is a non-append event or the buffer
\* is empty when it comes (it is the first event or follows a break marker).
Opens(events, k) ==
    /\ ~BlankEvent(events[k])
    /\ \/ ~AppendEvent(events[k])
       \/ k = 1
       \/ BlankEvent(events[k - 1])

\* The indices of the events that open a paragraph, in input order.
StartIndices(events) ==
    SelectSeq([k \in 1..Len(events) |-> k], LAMBDA k : Opens(events, k))

\* C19: from the start of the pass on, the list of paragraphs only grows at its end
\* (what was emitted keeps its text and its position), the list returned is the list
\* so grown, and its paragraphs come in the order of the events that opened them:
\* paragraph k begins with the stripped text of the k-th opening event.
C19_GrowsAtEnd ==
    /\ [][\A p \in DOMAIN calls :
            calls[p].pc \in {"loop", "write_out", "write_extra"} =>
                IsPrefix(calls[p].paragraphs, calls'[p].paragraphs)]_vars
    /\ [](\A p \in DOMAIN calls :
            ReturnedList(p) =>
                LET starts == StartIndices(events_of(calls[p]))
                IN  /\ calls[p].ret.v = calls[p].paragraphs
                    /\ Len(calls[p].ret.v) = Len(starts)
                    /\ \A k \in 1..Len(starts) :
                          IsPrefix(strip(TextOf(events_of(calls[p])[starts[k]])),
                                   calls[p].ret.v[k]))

\* In the middle of a pass two different paragraphs have been emitted, the second by
\* the third event.
C19_Witness ==
    \E p \in DOMAIN calls :
        /\ Processed(p, 3)
        /\ Len(calls[p].paragraphs) = 2
        /\ calls[p].paragraphs[1] # calls[p].paragraphs[2]
        /\ calls[p].current_paragraph # <<>>

MaxEventsFair == 3

\* The documents of the calls whose termination is examined.
DocsFair ==
    { JsonDoc([events |-> <<es>>]) :
        es \in UNION { [1..n -> EventsTwo] : n \in 0..MaxEventsFair } }
    \cup { JsonDoc([events |-> <<>>]), Text(<<"x">>) }

InitFair ==
    /\ \E d \in DocsFair : remote = d /\ fs = [q \in {LocalFile} |-> d]
    /\ calls = [p \in {1} |-> NewFrame]
    /\ OthersAtRest

\* A call of parse_cc, once made, runs on: every step it can take is taken in the end.
SpecFair == InitFair /\ [][Next]_vars /\ WF_vars(Next)

\* Activation p enters the loop in this step.
EnterStep(p) == calls[p].pc # "loop" /\ calls'[p].pc = "loop"

\* C20: the pass over the retrieved events is one forward pass that ends: it starts
\* at the first event, every step in the loop moves to the next event and leaves the
\* events unchanged, the loop is left only when every event has been passed, and the
\* loop is left in the end.
C20_SinglePassTerminates ==
    /\ [][\A p \in DOMAIN calls :
            /\ EnterStep(p) => calls'[p].next = 1
            /\ (calls[p].pc = "loop" /\ calls'[p].pc = "loop" /\ calls'[p] # calls[p]) =>
                  /\ calls[p].next <= Len(events_of(calls[p]))
                  /\ calls'[p].next = calls[p].next + 1
                  /\ calls'[p].data = calls[p].data
            /\ FlushStep(p) =>
                  /\ calls[p].next = Len(events_of(calls[p])) + 1
                  /\ calls'[p].data = calls[p].data]_vars
    /\ \A p \in {1} : (calls[p].pc = "loop") ~> (calls[p].pc = "write_out")

\* The pass over three events is over.
C20_Witness ==
    \E p \in DOMAIN calls :
        /\ calls[p].pc = "write_out"
        /\ Len(events_of(calls[p])) = 3
        /\ calls[p].next = 4
        /\ Len(calls[p].paragraphs) = 2

\* C25: the number of paragraphs parse_cc returns is the number of events with text
\* that are non-append events or append events arriving at an empty buffer (the first
\* event of the stream or the first after a break marker); so it is at most the number
\* of events with text.
C25_ParagraphCount ==
    \A p \in DOMAIN calls :
        ReturnedList(p) =>
            LET events == events_of(calls[p])
            IN  /\ Len(calls[p].ret.v) =
                     Cardinality({ k \in 1..Len(events) : Opens(events, k) })
                /\ Len(calls[p].ret.v) <=
                     Cardinality({ k \in 1..Len(events) : ~BlankEvent(events[k]) })

\* Two paragraphs were returned for three events with text: an append event that
\* opened the first paragraph, an append event that continued it, a non-append event.
C25_Witness ==
    \E p \in DOMAIN calls :
        /\ ReturnedList(p)
        /\ Len(events_of(calls[p])) = 3
        /\ \A k \in 1..3 : ~BlankEvent(events_of(calls[p])[k])
        /\ AppendEvent(events_of(calls[p])[1]) /\ AppendEvent(events_of(calls[p])[2])
        /\ ~AppendEvent(events_of(calls[p])[3])
        /\ Len(calls[p].ret.v) = 2

(***************************************************************************)
(* The metadata (.info.json) file: src/common/util.py (reformat_json),     *)
(* src/common/youtube_info.py (probe_url, get_info_json) and               *)
(* src/common/cc_parser.py (extract_all, extract_cc_url, process_url).     *)
(*                                                                         *)
(* The content of a JSON file is [t |-> "json", v |-> data, layout |-> l]: *)
(* l tells how the text was laid out by the json.dump(s) that wrote it.    *)
(***************************************************************************)
\* str.replace(old, new), every occurrence from the left.
RECURSIVE replace(_, _, _)
replace(s, old, new) ==
    IF Len(s) < Len(old) THEN s
    ELSE IF SubSeq(s, 1, Len(old)) = old
    THEN new \o replace(SubSeq(s, Len(old) + 1, Len(s)), old, new)
    ELSE << Head(s) >> \o replace(Tail(s), old, new)

\* os.remove(path) and os.rename(src, dst) on a mapping from paths (the files, or
\* their times).
removed(files, path) == [q \in DOMAIN files \ {path} |-> files[q]]
renamed(files, src, dst) ==
    [q \in (DOMAIN files \ {src}) \cup {dst} |-> IF q = dst THEN files[src] ELSE files[q]]
touched(times, path, t) ==
    [q \in DOMAIN times \cup {path} |-> IF q = path THEN t ELSE times[q]]
stored(files, path, content) ==
    [q \in DOMAIN files \cup {path} |-> IF q = path THEN content ELSE files[q]]

\* The languages of caption tracks, and the automatic_captions dict over them.
Languages == {"en", "nl", "de"}
NoCaptions == [l \in Languages |-> <<>>]

\* A caption track: {"ext": ..., "url": ...}.
Track(ext, url) == [ext |-> ext, url |-> url]

\* The info dict yt-dlp writes, with the keys the program reads.
Info(display_id, captions, comments) ==
    [display_id |-> display_id, automatic_captions |-> captions, comments |-> comments]

\* A JSON file as written by yt-dlp, by json.dumps(indent=4, sort_keys=True) and by
\* json.dump(indent=2).
AsDownloaded(data) == [t |-> "json", v |-> data, layout |-> "compact"]
Indent4Sorted(data) == [t |-> "json", v |-> data, layout |-> "indent=4, sort_keys"]
Indent2(data) == [t |-> "json", v |-> data, layout |-> "indent=2"]

\* A file whose write was cut short: the beginning of a JSON text.
Partial == Text(<<"{">>)

\* util.py lines 63-67: keep the automatic captions of the preserved languages.
preserved(data, preserve_captions) ==
    IF preserve_captions # {}
    THEN [data EXCEPT !.automatic_captions =
            << [l \in Languages |->
                  IF l \in preserve_captions THEN Get(data.automatic_captions, NoCaptions)[l]
                  ELSE <<>>] >>]
    ELSE data

\* util.py lines 75-78: the finally clause; exc is the exception in flight ("" when
\* none), replaced by that of os.rename when the output file is not there.
reformat_json_finally(disk, input_path, output_path, rename_output, remove_input, exc) ==
    IF (output_path \in DOMAIN disk.fs /\ rename_output)
       \/ (remove_input /\ input_path # output_path)
    THEN IF output_path \in DOMAIN disk.fs
         THEN [fs |-> renamed(removed(disk.fs, input_path), output_path, input_path),
               mtime |-> renamed(removed(disk.mtime, input_path), output_path, input_path),
               raises |-> exc]
         ELSE [fs |-> removed(disk.fs, input_path),
               mtime |-> removed(disk.mtime, input_path),
               raises |-> "FileNotFoundError"]
    ELSE [fs |-> disk.fs, mtime |-> disk.mtime, raises |-> exc]

\* util.py lines 34-78.  disk is [fs, mtime]; output_path is None or a str;
\* preserve_captions is a set of languages; fault is where the operating system lets
\* the call down: "" (nowhere), "read" (line 61), "open" (line 72: no file is
\* created) or "write" (line 73: the file is created and the text cut short).
reformat_json(disk, t, input_path, output_path, preserve_captions, remove_input, fault) ==
    IF input_path \notin DOMAIN disk.fs
    THEN [fs |-> disk.fs, mtime |-> disk.mtime, raises |-> "FileNotFoundError"]
    ELSE
    LET rename_output == ~truthy(output_path)
        out == IF rename_output
               THEN replace(input_path, <<".", "j", "s", "o", "n">>,
                            <<"_", ".", "j", "s", "o", "n">>)
               ELSE output_path.v
        loaded == json_load(disk.fs[input_path])
        body ==
            IF fault = "read"
            THEN [fs |-> disk.fs, mtime |-> disk.mtime, raises |-> "OSError"]
            ELSE IF loaded.raises # ""
            THEN [fs |-> disk.fs, mtime |-> disk.mtime, raises |-> loaded.raises]
            ELSE IF fault = "open"
            THEN [fs |-> disk.fs, mtime |-> disk.mtime, raises |-> "OSError"]
            ELSE IF fault = "write"
            THEN [fs |-> stored(disk.fs, out, Partial),
                  mtime |-> touched(disk.mtime, out, t), raises |-> "OSError"]
            ELSE [fs |-> stored(disk.fs, out,
                                Indent4Sorted(preserved(loaded.value, preserve_captions))),
                  mtime |-> touched(disk.mtime, out, t), raises |-> ""]
    IN  IF out \in DOMAIN disk.fs
        THEN [fs |-> disk.fs, mtime |-> disk.mtime, raises |-> "FileExistsError"]
        ELSE reformat_json_finally(body, input_path, out, rename_output, remove_input,
                                   body.raises)

(***************************************************************************)
(* URLs, video ids and file names.                                         *)
(***************************************************************************)
ID_LENGTH == 11
METADATA_FILE_LIFESPAN == 2592000

\* `sub in s`
RECURSIVE contains(_, _)
contains(s, sub) ==
    IF Len(s) < Len(sub) THEN FALSE
    ELSE SubSeq(s, 1, Len(sub)) = sub \/ contains(Tail(s), sub)

\* s.split(sep)[0] and sep.join(s.split(sep)[1:])
RECURSIVE before(_, _)
before(s, sep) ==
    IF Len(s) < Len(sep) THEN s
    ELSE IF SubSeq(s, 1, Len(sep)) = sep THEN <<>>
    ELSE << Head(s) >> \o before(Tail(s), sep)
RECURSIVE after(_, _)
after(s, sep) ==
    IF Len(s) < Len(sep) THEN <<>>
    ELSE IF SubSeq(s, 1, Len(sep)) = sep THEN SubSeq(s, Len(sep) + 1, Len(s))
    ELSE after(Tail(s), sep)

\* s[:n]
first(s, n) == SubSeq(s, 1, IF Len(s) < n THEN Len(s) ELSE n)

\* util.py line 28: the segments that precede the id in a YouTube URL.
UrlSegments ==
    << <<"y", "o", "u", "t", "u", ".", "b", "e", "/">>,
       <<"y", "o", "u", "t", "u", "b", "e", ".", "c", "o", "m", "/", "s", "h", "o", "r", "t", "s", "/">>,
       <<"y", "o", "u", "t", "u", "b", "e", ".", "c", "o", "m", "/", "w", "a", "t", "c", "h", "?", "v", "=">> >>

\* util.py lines 23-31: "" stands for the RuntimeError of a string with no id in it.
RECURSIVE id_after(_, _)
id_after(url, segments) ==
    IF segments = <<>> THEN <<>>
    ELSE IF contains(url, Head(segments))
    THEN first(before(after(url, Head(segments)), Head(segments)), ID_LENGTH)
    ELSE id_after(url, Tail(segments))

extract_id(url) ==
    IF /\ Len(url) = 11
       /\ ~contains(url, <<"?">>) /\ ~contains(url, <<"=">>) /\ ~contains(url, <<"/">>)
    THEN url
    ELSE id_after(url, UrlSegments)

\* youtube_info.py lines 28-30, relative to the folder of the metadata files (the
\* working directory, line 25).
generate_file_name(url) == extract_id(url) \o <<".", "i", "n", "f", "o", ".", "j", "s", "o", "n">>

\* os.path.splitext(name)[0] of a name with an extension.
RECURSIVE splitext0(_)
splitext0(name) ==
    IF name = <<>> THEN <<>>
    ELSE IF name[Len(name)] = "." THEN SubSeq(name, 1, Len(name) - 1)
    ELSE splitext0(SubSeq(name, 1, Len(name) - 1))

\* os.path.join(folder, name)
path_join(folder, name) == folder \o <<"/">> \o name

VideoId == <<"d", "Q", "w", "4", "w", "9", "W", "g", "X", "c", "Q">>
\* cc_parser.py line 255.
WatchPrefix ==
    <<"h", "t", "t", "p", "s", ":", "/", "/", "w", "w", "w", ".", "y", "o", "u", "t", "u", "b", "e", ".", "c", "o", "m", "/">>
      \o <<"w", "a", "t", "c", "h", "?", "v", "=">>
WatchUrl == WatchPrefix \o VideoId
Urls == {VideoId, WatchUrl}

InfoJson == generate_file_name(WatchUrl)
CookiesFile == <<"c", "o", "o", "k", "i", "e", "s", ".", "t", "x", "t">>
CcFolder == <<"c", "c">>

(***************************************************************************)
(* probe_url, extract_all, extract_cc_url.                                 *)
(***************************************************************************)
\* The languages probe_url keeps (youtube_info.py lines 89-90, no `languages` given).
caption_languages == {"en", "nl"}

\* youtube_info.py lines 33-98.  disk is [fs, mtime] and t the time; force_download is
\* TRUE for a true value and FALSE for None or False; download says what
\* yt_dlp...download([url]) does: it writes the info dict `info` to <id>.info.json
\* ("written"), raises ("DownloadError") or returns with no file written ("nothing");
\* fault is the fault of reformat_json.
probe_url(disk, t, url, force_download, download, info, fault) ==
    LET out_file == generate_file_name(url)
        old == /\ out_file \in DOMAIN disk.fs
               /\ \/ force_download
                  \/ ~force_download /\ t - disk.mtime[out_file] > METADATA_FILE_LIFESPAN
        kept == IF old
                THEN [fs |-> removed(disk.fs, out_file), mtime |-> removed(disk.mtime, out_file)]
                ELSE [fs |-> disk.fs, mtime |-> disk.mtime]
        got == IF download = "written"
               THEN [fs |-> stored(kept.fs, out_file, AsDownloaded(info)),
                     mtime |-> touched(kept.mtime, out_file, t)]
               ELSE kept
        made == reformat_json(got, t, out_file, None, caption_languages, FALSE, fault)
    IN  IF out_file \in DOMAIN kept.fs /\ ~force_download
        THEN [fs |-> kept.fs, mtime |-> kept.mtime, raises |-> "", value |-> PyStr(out_file)]
        ELSE IF download = "DownloadError"
        THEN [fs |-> kept.fs, mtime |-> kept.mtime, raises |-> "DownloadError",
              value |-> None]
        ELSE IF made.raises = "FileNotFoundError"
        THEN [fs |-> made.fs, mtime |-> made.mtime, raises |-> "", value |-> None]
        ELSE [fs |-> made.fs, mtime |-> made.mtime, raises |-> made.raises,
              value |-> IF made.raises = "" THEN PyStr(out_file) ELSE None]

\* path[:-5] + ".comments.json"
comments_file(path) ==
    SubSeq(path, 1, Len(path) - 5)
      \o <<".", "c", "o", "m", "m", "e", "n", "t", "s", ".", "j", "s", "o", "n">>

\* cc_parser.py lines 29-65: extract_all(path), with extract_comments as extract_all
\* calls it (content given, so the content is returned and not saved by it).
extract_all(disk, t, path) ==
    LET loaded == IF path \in DOMAIN disk.fs THEN json_load(disk.fs[path])
                  ELSE Raised("FileNotFoundError")
        content == loaded.value
        comments == Get(content.comments, <<>>)
        output == [k \in 1..Len(comments) |->
                     [text |-> comments[k].text, display_id |-> content.display_id[1]]]
        without == [content EXCEPT !.comments = <<>>]
        saved == IF Len(output) > 0
                 THEN [fs |-> stored(disk.fs, comments_file(path), Indent2(output)),
                       mtime |-> disk.mtime]
                 ELSE [fs |-> disk.fs, mtime |-> disk.mtime]
    IN  IF loaded.raises # ""
        THEN [fs |-> disk.fs, mtime |-> disk.mtime, raises |-> loaded.raises]
        ELSE IF content.display_id = <<>>
        THEN [fs |-> disk.fs, mtime |-> disk.mtime, raises |-> "KeyError"]
        ELSE [fs |-> stored(saved.fs, path, Indent2(without)),
              mtime |-> touched(saved.mtime, path, t), raises |-> ""]

\* cc_parser.py lines 153-159: the url of the first track of the wanted extension;
\* cc_ext is None or the str of a member of CC_EXT.
RECURSIVE first_url(_, _)
first_url(cc_urls, cc_ext) ==
    IF cc_urls = <<>> THEN Raised("RuntimeError")
    ELSE IF cc_ext = None \/ Head(cc_urls).ext = str(cc_ext)
    THEN [raises |-> "", value |-> Head(cc_urls).url]
    ELSE first_url(Tail(cc_urls), cc_ext)

\* cc_parser.py lines 121-159.
extract_cc_url(json_file, language, cc_ext) ==
    LET json_data == load_data(json_file, NoResponse)
    IN  IF json_data.raises # "" THEN Raised(json_data.raises)
        ELSE IF json_data.value.automatic_captions = <<>> THEN Raised("RuntimeError")
        ELSE IF json_data.value.automatic_captions[1][language] = <<>>
        THEN Raised("RuntimeError")
        ELSE first_url(json_data.value.automatic_captions[1][language][1], cc_ext)

(***************************************************************************)
(* process_url, step by step, and the calls of the other operations.       *)
(***************************************************************************)
\* The call process_url(url, output_folder, add_cookies=..., path_cookies_downloaded=...):
\* output_folder is <<>> when the caller leaves it out, and then the call raises
\* TypeError, as output_folder has no default (cc_parser.py line 222).
process_url_frame(url, output_folder, add_cookies, path_cookies_downloaded, retries) ==
    [fn |-> "process_url",
     pc |-> IF output_folder = <<>> THEN "raised" ELSE "probe",
     exc |-> IF output_folder = <<>> THEN "TypeError" ELSE "",
     url |-> url, output_folder |-> output_folder, add_cookies |-> add_cookies,
     path_cookies_downloaded |-> path_cookies_downloaded,
     json_file |-> <<>>, output_file |-> <<>>, ret |-> None, retries |-> retries]

process_url_call(url, output_folder, add_cookies, path_cookies_downloaded) ==
    /\ meta.pc = "idle"
    /\ meta' = process_url_frame(url, <<output_folder>>, add_cookies,
                                 path_cookies_downloaded, 0)
    /\ UNCHANGED <<fs, remote, calls, mtime, now, pm, gui>>

\* cc_parser.py lines 254-259.
process_url_probe(download, info, fault) ==
    /\ meta.fn = "process_url" /\ meta.pc = "probe"
    /\ LET url == IF Len(meta.url) = 11 THEN WatchPrefix \o meta.url ELSE meta.url
           json_file == generate_file_name(url)
           probed == probe_url([fs |-> fs, mtime |-> mtime], now, url, FALSE,
                               download, info, fault)
       IN  IF ~exists(json_file)
           THEN /\ fs' = probed.fs
                /\ mtime' = probed.mtime
                /\ meta' = IF probed.raises # ""
                           THEN [meta EXCEPT !.pc = "raised", !.exc = probed.raises,
                                             !.url = url, !.json_file = json_file]
                           ELSE [meta EXCEPT !.pc = "check", !.url = url,
                                             !.json_file = json_file]
           ELSE /\ meta' = [meta EXCEPT !.pc = "check", !.url = url,
                                        !.json_file = json_file]
                /\ UNCHANGED <<fs, mtime>>
    /\ UNCHANGED <<remote, calls, now, pm, gui>>

\* cc_parser.py lines 261-274.
process_url_check ==
    /\ meta.fn = "process_url" /\ meta.pc = "check"
    /\ LET cookies == meta.path_cookies_downloaded
       IN  IF ~exists(meta.json_file)
           THEN IF cookies # None /\ exists(cookies.v) /\ ~meta.add_cookies
                THEN IF exists(cookies.v) /\ mtime[cookies.v] + 1800 < now
                     THEN /\ fs' = removed(fs, cookies.v)
                          /\ mtime' = removed(mtime, cookies.v)
                          /\ meta' = [meta EXCEPT !.pc = "extract_all"]
                     ELSE /\ meta' = process_url_frame(meta.url, <<>>, TRUE, cookies,
                                                       meta.retries + 1)
                          /\ UNCHANGED <<fs, mtime>>
                ELSE /\ meta' = [meta EXCEPT !.pc = "done", !.ret = None]
                     /\ UNCHANGED <<fs, mtime>>
           ELSE /\ meta' = [meta EXCEPT !.pc = "extract_all"]
                /\ UNCHANGED <<fs, mtime>>
    /\ UNCHANGED <<remote, calls, now, pm, gui>>

\* cc_parser.py lines 275-276.
process_url_extract_all ==
    /\ meta.fn = "process_url" /\ meta.pc = "extract_all"
    /\ LET done == extract_all([fs |-> fs, mtime |-> mtime], now, meta.json_file)
       IN  /\ fs' = done.fs
           /\ mtime' = done.mtime
           /\ meta' = IF done.raises # ""
                      THEN [meta EXCEPT !.pc = "raised", !.exc = done.raises]
                      ELSE [meta EXCEPT !.pc = "extract_cc_url",
                                        !.output_file =
                                            splitext0(meta.json_file) \o <<".", "t", "x", "t">>]
    /\ UNCHANGED <<remote, calls, now, pm, gui>>

\* cc_parser.py lines 279-289: the caption URL, and the call of parse_cc on it (no
\* cc_ext and no language are given, so json3 and en are looked for).
process_url_extract_cc_url ==
    /\ meta.fn = "process_url" /\ meta.pc = "extract_cc_url"
    /\ LET cc_url == extract_cc_url(meta.json_file, "en", PyStr(<<"j", "s", "o", "n", "3">>))
           output_file == path_join(meta.output_folder[1], meta.output_file)
       IN  IF cc_url.raises = "RuntimeError"
           THEN /\ meta' = [meta EXCEPT !.pc = "done", !.ret = None]
                /\ UNCHANGED calls
           ELSE IF cc_url.raises # ""
           THEN /\ meta' = [meta EXCEPT !.pc = "raised", !.exc = cc_url.raises]
                /\ UNCHANGED calls
           ELSE /\ meta' = [meta EXCEPT !.pc = "parse_cc", !.output_file = output_file]
                /\ calls' = [calls EXCEPT ![1] =
                               [NewFrame EXCEPT !.pc = "load", !.source = cc_url.value,
                                                !.out_file = PyStr(output_file)]]
    /\ UNCHANGED <<fs, remote, mtime, now, pm, gui>>

\* cc_parser.py lines 289-299: parse_cc is over; its value is not looked at.
process_url_return ==
    /\ meta.fn = "process_url" /\ meta.pc = "parse_cc"
    /\ calls[1].pc \in {"done", "raised"}
    /\ meta' = IF calls[1].pc = "raised"
               THEN [meta EXCEPT !.pc = "raised", !.exc = calls[1].exc]
               ELSE [meta EXCEPT !.pc = "done",
                                 !.ret = PyTuple(<<meta.json_file, meta.output_file>>)]
    /\ UNCHANGED <<fs, remote, calls, mtime, now, pm, gui>>

\* probe_url(url, force_download=...) called on its own.
probe_url_call(url, force_download, download, info, fault) ==
    /\ meta.pc = "idle"
    /\ LET probed == probe_url([fs |-> fs, mtime |-> mtime], now, url, force_download,
                               download, info, fault)
       IN  /\ fs' = probed.fs
           /\ mtime' = probed.mtime
           /\ meta' = [fn |-> "probe_url",
                       pc |-> IF probed.raises = "" THEN "done" ELSE "raised",
                       exc |-> probed.raises, url |-> url,
                       force_download |-> force_download, ret |-> probed.value]
    /\ UNCHANGED <<remote, calls, now, pm, gui>>

\* youtube_info.py lines 101-108; open(None) raises TypeError.
get_info_json_call(url, download, info, fault) ==
    /\ meta.pc = "idle"
    /\ LET file_name == generate_file_name(url)
           probed == IF exists(file_name)
                     THEN [fs |-> fs, mtime |-> mtime, raises |-> "",
                           value |-> PyStr(file_name)]
                     ELSE probe_url([fs |-> fs, mtime |-> mtime], now, url, FALSE,
                                    download, info, fault)
           loaded == IF probed.raises # "" THEN Raised(probed.raises)
                     ELSE IF probed.value = None THEN Raised("TypeError")
                     ELSE json_load(probed.fs[probed.value.v])
       IN  /\ fs' = probed.fs
           /\ mtime' = probed.mtime
           /\ meta' = [fn |-> "get_info_json",
                       pc |-> IF loaded.raises = "" THEN "done" ELSE "raised",
                       exc |-> loaded.raises, url |-> url,
                       ret |-> IF loaded.raises = "" THEN PyDict(loaded.value) ELSE None]
    /\ UNCHANGED <<remote, calls, now, pm, gui>>

\* reformat_json(input_path, output_path, remove_input=...) called on its own.
reformat_json_call(input_path, output_path, remove_input, fault) ==
    /\ meta.pc = "idle"
    /\ LET made == reformat_json([fs |-> fs, mtime |-> mtime], now, input_path,
                                 output_path, caption_languages, remove_input, fault)
       IN  /\ fs' = made.fs
           /\ mtime' = made.mtime
           /\ meta' = [fn |-> "reformat_json",
                       pc |-> IF made.raises = "" THEN "done" ELSE "raised",
                       exc |-> made.raises, input_path |-> input_path,
                       output_path |-> output_path, remove_input |-> remove_input]
    /\ UNCHANGED <<remote, calls, now, pm, gui>>

(***************************************************************************)
(* The metadata operations: inputs and specification.                      *)
(***************************************************************************)
\* The info dicts yt-dlp can write: captions in en as json3; en as vtt only and de,
\* with a comment; no captions; no display_id.
Infos ==
    { Info(<<VideoId>>,
           << [NoCaptions EXCEPT !["en"] = << << Track(<<"j", "s", "o", "n", "3">>, CaptionUrl) >> >>] >>,
           <<>>),
      Info(<<VideoId>>,
           << [NoCaptions EXCEPT !["en"] = << << Track(<<"v", "t", "t">>, PlainUrl) >> >>,
                                 !["de"] = << << Track(<<"j", "s", "o", "n", "3">>, CaptionUrl) >> >>] >>,
           << << [text |-> <<"h", "i">>] >> >>),
      Info(<<VideoId>>, <<>>, <<>>),
      Info(<<>>, << NoCaptions >>, <<>>) }

\* What the metadata file can hold when an operation starts: what an earlier probe_url
\* left, a raw download, or text that is not JSON.
InfoFiles ==
    { Indent4Sorted(preserved(i, caption_languages)) : i \in Infos }
    \cup { AsDownloaded(i) : i \in Infos }
    \cup { Text(<<"x">>) }

\* The time of the calls, and the ages a file can have then.
Today == METADATA_FILE_LIFESPAN + 1801
InfoTimes == {Today - METADATA_FILE_LIFESPAN - 1, Today - METADATA_FILE_LIFESPAN, Today}
CookiesTimes == {Today - 1801, Today - 1800}

OtherJson == <<"o", "t", "h", "e", "r", ".", "j", "s", "o", "n">>
Faults == {"", "read", "open", "write"}
Downloads == {"written", "DownloadError", "nothing"}

\* The caption document of the video.
CaptionDoc ==
    JsonDoc([events |-> << << Ev(<< Seg(<<"a", "\n">>) >>, Absent),
                              Ev(<< Seg(<<" ", "b">>), Seg(<<" ", "c", "\n">>) >>, Append1) >> >>])

InitMeta ==
    /\ remote = CaptionDoc
    /\ now = Today
    /\ calls = [p \in {1} |-> NewFrame]
    /\ meta = NoMeta
    /\ NoWindows
    /\ \E info \in SUBSET {InfoJson}, cookies \in SUBSET {CookiesFile} :
          /\ \E f \in [info -> InfoFiles] :
                fs = [q \in info \cup cookies |-> IF q \in info THEN f[q] ELSE Text(<<>>)]
          /\ \E ti \in [info -> InfoTimes], tc \in [cookies -> CookiesTimes] :
                mtime = [q \in info \cup cookies |-> IF q \in info THEN ti[q] ELSE tc[q]]

NextMeta ==
    \/ \E u \in Urls, a \in BOOLEAN, c \in {None, PyStr(CookiesFile)} :
          process_url_call(u, CcFolder, a, c)
    \/ \E d \in Downloads, i \in Infos, f \in Faults : process_url_probe(d, i, f)
    \/ process_url_check
    \/ process_url_extract_all
    \/ process_url_extract_cc_url
    \/ \E r \in Responses : parse_cc_load(1, r)
    \/ parse_cc_event(1)
    \/ parse_cc_flush(1)
    \/ parse_cc_write_out(1)
    \/ parse_cc_write_extra(1)
    \/ process_url_return
    \/ \E u \in Urls, force \in BOOLEAN, d \in Downloads, i \in Infos, f \in Faults :
          probe_url_call(u, force, d, i, f)
    \/ \E u \in Urls, d \in Downloads, i \in Infos, f \in Faults :
          get_info_json_call(u, d, i, f)
    \/ \E o \in {None, PyStr(OtherJson)}, r \in BOOLEAN, f \in Faults :
          reformat_json_call(InfoJson, o, r, f)

SpecMeta == InitMeta /\ [][NextMeta]_vars

(***************************************************************************)
(* Properties of the metadata operations.                                  *)
(***************************************************************************)
\* process_url has returned the pair (json_file, output_file).
ReturnedPair == meta.fn = "process_url" /\ meta.pc = "done" /\ meta.ret.t = "tuple"

Outdated(url) ==
    /\ generate_file_name(url) \in DOMAIN fs
    /\ now - mtime[generate_file_name(url)] > METADATA_FILE_LIFESPAN

\* The metadata file of url is written anew in this step.
Renewed(url) ==
    /\ generate_file_name(url) \in DOMAIN fs'
    /\ fs'[generate_file_name(url)].t = "json"
    /\ fs'[generate_file_name(url)].layout = "indent=4, sort_keys"
    /\ mtime'[generate_file_name(url)] = now

\* A metadata operation of the given name starts and ends in this step without raising.
Completes(fn) == meta.pc = "idle" /\ meta'.fn = fn /\ meta'.pc = "done"

\* C22: no operation that obtains the metadata of a URL goes on with an existing file
\* older than METADATA_FILE_LIFESPAN: probe_url and get_info_json that end well on
\* such a file have downloaded it again, and process_url does not reach extract_all
\* with it; probe_url on a file that is not older, without force_download, returns
\* the path of the file and leaves the files alone.
C22_OutdatedIsRenewed ==
    /\ [][/\ (Completes("probe_url") /\ Outdated(meta'.url) /\ meta'.ret # None) =>
               Renewed(meta'.url)
          /\ (Completes("get_info_json") /\ Outdated(meta'.url)) => Renewed(meta'.url)
          /\ (/\ Completes("probe_url") /\ ~meta'.force_download
              /\ generate_file_name(meta'.url) \in DOMAIN fs /\ ~Outdated(meta'.url)) =>
                 /\ meta'.ret = PyStr(generate_file_name(meta'.url))
                 /\ fs' = fs /\ mtime' = mtime]_vars
    /\ []((meta.fn = "process_url" /\ meta.pc = "extract_all") => ~Outdated(meta.url))

\* C26: when the info json is still missing after probing, process_url returns without
\* a result or retries with cookies, once and with the same output folder; it never
\* goes on to extract_all or extract_cc_url on a missing file.
C26_MissingFileStops ==
    /\ [][(/\ meta.fn = "process_url" /\ meta.pc = "check"
           /\ meta.json_file \notin DOMAIN fs /\ meta' # meta) =>
              \/ meta'.pc = "done" /\ meta'.ret = None
              \/ /\ meta'.pc = "probe"
                 /\ meta'.add_cookies
                 /\ meta'.output_folder = meta.output_folder
                 /\ meta.retries = 0 /\ meta'.retries = 1]_vars
    /\ []((meta.fn = "process_url" /\ meta.pc \in {"extract_all", "extract_cc_url"}) =>
             meta.json_file \in DOMAIN fs)

\* C29: reformat_json never loses the metadata file: after a call on an existing
\* input_path, however it ends, a file exists at input_path and holds the original
\* content or the complete reformatted content.
C29_InputSurvives ==
    [][(/\ meta.pc = "idle" /\ meta'.fn = "reformat_json"
        /\ meta'.input_path \in DOMAIN fs) =>
           /\ meta'.input_path \in DOMAIN fs'
           /\ \/ fs'[meta'.input_path] = fs[meta'.input_path]
              \/ /\ fs'[meta'.input_path].t = "json"
                 /\ fs'[meta'.input_path].layout = "indent=4, sort_keys"
                 /\ fs'[meta'.input_path].v.display_id = fs[meta'.input_path].v.display_id]_vars

(***************************************************************************)
(* The prompt manager (manager/prompt_manager.py) and the two handlers of  *)
(* gui_summary.py that change its prompts: the Add-Instructions window and *)
(* the deletion of the selected prompt.  A prompt name and a prompt text   *)
(* are Python strings, so sequences of characters; the prompts dict is a   *)
(* function from the names it holds to {"model": ..., "text": ...}.        *)
(***************************************************************************)

\* PromptManager.DEFAULT_PROMPT_NAME = "Default Summary"
DEFAULT_PROMPT_NAME ==
    <<"D", "e", "f", "a", "u", "l", "t", " ", "S", "u", "m", "m", "a", "r", "y">>

\* DEFAULT_PROMPT_TEXT: no operation looks inside a prompt text, so the text
\* of the default prompt is written by its opening word.
DEFAULT_PROMPT_TEXT == <<"P", "l", "e", "a", "s", "e">>

\* self.config_path, the prompts.json of the configuration folder
config_path == "prompts.json"

\* {"model": model, "text": text}
Prompt(model, text) == [model |-> model, text |-> text]

\* defaults of load_prompts
defaults ==
    [n \in {DEFAULT_PROMPT_NAME} |-> Prompt("gemini-1.5-flash-latest", DEFAULT_PROMPT_TEXT)]

\* save_prompts: json.dump(self.prompts, f, indent=4) into config_path
save_prompts(prompts, files) ==
    [q \in DOMAIN files \cup {config_path} |->
        IF q = config_path THEN JsonDoc(prompts) ELSE files[q]]

\* load_prompts: the defaults, saved, when there is no file; the defaults
\* when the file is not JSON or holds nothing; the content of the file
\* otherwise.
load_prompts(files) ==
    IF config_path \notin DOMAIN files
    THEN [prompts |-> defaults, fs |-> save_prompts(defaults, files)]
    ELSE IF files[config_path].t = "json" /\ DOMAIN files[config_path].v # {}
         THEN [prompts |-> files[config_path].v, fs |-> files]
         ELSE [prompts |-> defaults, fs |-> files]

\* add_prompt(self, name, text, model), called with the positional arguments
\* args: Python raises TypeError before the body when one is missing.
add_prompt(prompts, files, args) ==
    IF Len(args) # 3
    THEN [prompts |-> prompts, fs |-> files, raises |-> "TypeError"]
    ELSE LET added == [n \in DOMAIN prompts \cup {args[1]} |->
                         IF n = args[1] THEN Prompt(args[3], args[2]) ELSE prompts[n]]
         IN  [prompts |-> added, fs |-> save_prompts(added, files), raises |-> ""]

\* delete_prompt without the test for the default name
delete_prompt_any(prompts, files, name) ==
    IF name \notin DOMAIN prompts
    THEN [prompts |-> prompts, fs |-> files, raises |-> "KeyError"]
    ELSE LET popped == [n \in DOMAIN prompts \ {name} |-> prompts[n]]
         IN  [prompts |-> popped, fs |-> save_prompts(popped, files), raises |-> ""]

\* delete_prompt(self, name): returns at once for the default name;
\* self.prompts.pop(name) raises KeyError for a name that is not a key.
delete_prompt(prompts, files, name) ==
    IF name = DEFAULT_PROMPT_NAME
    THEN [prompts |-> prompts, fs |-> files, raises |-> ""]
    ELSE IF name \notin DOMAIN prompts
         THEN [prompts |-> prompts, fs |-> files, raises |-> "KeyError"]
         ELSE LET popped == [n \in DOMAIN prompts \ {name} |-> prompts[n]]
              IN  [prompts |-> popped, fs |-> save_prompts(popped, files), raises |-> ""]

\* The record of the handler that ran last: its name, the name and text it
\* worked on, the exception that left it, and whether it called on_success.
Called(fn, name, text, raises, on_success) ==
    [fn |-> fn, name |-> name, text |-> text, raises |-> raises, on_success |-> on_success]

\* SummaryGUI.__init__: PromptManager() loads the prompts, and
\* _refresh_prompts_combobox loads them again and fills the combobox.
SummaryGUI_prompts(files) ==
    LET constructed == load_prompts(files)
        refreshed == load_prompts(constructed.fs)
    IN  [pm |-> [prompts |-> refreshed.prompts, values |-> DOMAIN refreshed.prompts,
                 window |-> "closed", called |-> Called("__init__", <<>>, <<>>, "", FALSE)],
         fs |-> refreshed.fs]

\* PromptManager.add_prompt(name, text, model)
add_prompt_call(name, text, model) ==
    /\ LET done == add_prompt(pm.prompts, fs, <<name, text, model>>)
       IN  /\ pm' = [pm EXCEPT !.prompts = done.prompts,
                               !.called = Called("add_prompt", name, text, done.raises, FALSE)]
           /\ fs' = done.fs
    /\ UNCHANGED <<remote, calls, mtime, now, meta, gui>>

\* PromptManager.delete_prompt(name)
delete_prompt_call(name) ==
    /\ LET done == delete_prompt(pm.prompts, fs, name)
       IN  /\ pm' = [pm EXCEPT !.prompts = done.prompts,
                               !.called = Called("delete_prompt", name, <<>>, done.raises, FALSE)]
           /\ fs' = done.fs
    /\ UNCHANGED <<remote, calls, mtime, now, meta, gui>>

\* SummaryGUI._open_add_prompt_window: the window grabs the input, so one is
\* open at a time.
open_add_prompt_window ==
    /\ pm.window = "closed"
    /\ pm' = [pm EXCEPT !.window = "open",
                        !.called = Called("_open_add_prompt_window", <<>>, <<>>, "", FALSE)]
    /\ UNCHANGED <<fs, remote, calls, mtime, now, meta, gui>>

\* The Cancel button of the Add-Instructions window: self.destroy
AddPromptWindow_destroy ==
    /\ pm.window = "open"
    /\ pm' = [pm EXCEPT !.window = "closed",
                        !.called = Called("destroy", <<>>, <<>>, "", FALSE)]
    /\ UNCHANGED <<fs, remote, calls, mtime, now, meta, gui>>

\* AddPromptWindow._submit with name_var and instructions_text as typed:
\* the three validations, then add_prompt(name, text), on_success (which is
\* _refresh_prompts_combobox) and destroy.
AddPromptWindow_submit(name_var, instructions_text) ==
    /\ pm.window = "open"
    /\ LET name == strip(name_var)
           text == strip(instructions_text)
           done == add_prompt(pm.prompts, fs, <<name, text>>)
           refreshed == load_prompts(done.fs)
       IN  IF name = <<>> \/ text = <<>> \/ name \in DOMAIN pm.prompts
           THEN /\ pm' = [pm EXCEPT !.called = Called("_submit", name, text, "", FALSE)]
                /\ UNCHANGED fs
           ELSE IF done.raises # ""
                THEN /\ pm' = [pm EXCEPT !.prompts = done.prompts,
                                         !.called = Called("_submit", name, text, done.raises, FALSE)]
                     /\ fs' = done.fs
                ELSE /\ pm' = [prompts |-> refreshed.prompts,
                               values |-> DOMAIN refreshed.prompts,
                               window |-> "closed",
                               called |-> Called("_submit", name, text, "", TRUE)]
                     /\ fs' = refreshed.fs
    /\ UNCHANGED <<remote, calls, mtime, now, meta, gui>>

\* SummaryGUI._delete_selected_prompt with the combobox selection and the
\* answer to the confirmation: delete_prompt, then _refresh_prompts_combobox.
delete_selected_prompt(selected_prompt, yes) ==
    /\ selected_prompt \in pm.values \cup {<<>>}
    /\ LET done == delete_prompt(pm.prompts, fs, selected_prompt)
           refreshed == load_prompts(done.fs)
       IN  IF selected_prompt = <<>> \/ selected_prompt = DEFAULT_PROMPT_NAME \/ ~yes
           THEN /\ pm' = [pm EXCEPT !.called =
                             Called("_delete_selected_prompt", selected_prompt, <<>>, "", FALSE)]
                /\ UNCHANGED fs
           ELSE IF done.raises # ""
                THEN /\ pm' = [pm EXCEPT !.called =
                                  Called("_delete_selected_prompt", selected_prompt, <<>>,
                                         done.raises, FALSE)]
                     /\ UNCHANGED fs
                ELSE /\ pm' = [pm EXCEPT !.prompts = refreshed.prompts,
                                         !.values = DOMAIN refreshed.prompts,
                                         !.called = Called("_delete_selected_prompt",
                                                           selected_prompt, <<>>, "", FALSE)]
                     /\ fs' = refreshed.fs
    /\ UNCHANGED <<remote, calls, mtime, now, meta, gui>>

\* The names given to add_prompt and delete_prompt
PromptNames == {DEFAULT_PROMPT_NAME, <<"a">>, <<"b">>}

\* The texts given to add_prompt
PromptTexts == {<<"t">>, <<"u">>}

\* The models given to add_prompt, two of gemini_models
PromptModels == {"gemini-1.5-pro-latest", "gemini-pro"}

\* What is typed into the name entry of the Add-Instructions window
TypedNames == {<<>>, <<" ">>, <<"a">>, <<" ", "b", " ">>, <<"c">>, DEFAULT_PROMPT_NAME}

\* What the text widget of the Add-Instructions window returns: the typed
\* text and the newline the widget ends with
TypedTexts == {<<"\n">>, <<" ", "\n">>, <<"t", "\n">>}

\* The prompts file before the program starts: none, one written by an
\* earlier run, one with nothing in it, one that is not JSON, and one
\* edited by hand from which the default prompt is gone.
PromptFiles ==
    {JsonDoc(defaults),
     JsonDoc([n \in {DEFAULT_PROMPT_NAME, <<"a">>} |->
                 IF n = <<"a">> THEN Prompt("gemini-pro", <<"t">>) ELSE defaults[n]]),
     JsonDoc(<<>>),
     Partial,
     JsonDoc([n \in {<<"a">>} |-> Prompt("gemini-pro", <<"t">>)])}

InitPrompts ==
    /\ remote = CaptionDoc
    /\ calls = [p \in {1} |-> NewFrame]
    /\ mtime = <<>>
    /\ now = 0
    /\ meta = NoMeta
    /\ gui = None
    /\ \E found \in {<<>>} \cup {[q \in {config_path} |-> f] : f \in PromptFiles} :
          /\ pm = SummaryGUI_prompts(found).pm
          /\ fs = SummaryGUI_prompts(found).fs

NextPrompts ==
    \/ \E n \in PromptNames, t \in PromptTexts, m \in PromptModels : add_prompt_call(n, t, m)
    \/ \E n \in PromptNames : delete_prompt_call(n)
    \/ open_add_prompt_window
    \/ AddPromptWindow_destroy
    \/ \E n \in TypedNames, t \in TypedTexts : AddPromptWindow_submit(n, t)
    \/ \E s \in TypedNames \cup PromptNames, y \in BOOLEAN : delete_selected_prompt(s, y)

SpecPrompts == InitPrompts /\ [][NextPrompts]_vars

\* C23: submitting the Add-Instructions window with a non-empty name that is
\* not yet a prompt name and a non-empty text adds the prompt to the prompt
\* manager and to the prompts file, calls on_success and closes the window;
\* submitting with an empty name, an empty text or an existing name leaves
\* the prompts unchanged.
C23_SubmitAdds ==
    [][(pm.window = "open" /\ pm'.called.fn = "_submit" /\ pm' # pm) =>
          IF /\ pm'.called.name # <<>>
             /\ pm'.called.text # <<>>
             /\ pm'.called.name \notin DOMAIN pm.prompts
          THEN /\ pm'.called.name \in DOMAIN pm'.prompts
               /\ pm'.prompts[pm'.called.name].text = pm'.called.text
               /\ config_path \in DOMAIN fs'
               /\ fs'[config_path] = JsonDoc(pm'.prompts)
               /\ pm'.called.on_success
               /\ pm'.window = "closed"
          ELSE pm'.prompts = pm.prompts /\ fs' = fs]_vars

\* C24: delete_prompt called with the default name leaves the prompts and
\* the prompts file as they are, and no add_prompt or delete_prompt takes
\* the default prompt out of a prompt set that holds it.
C24_DefaultStays ==
    [][/\ (pm'.called.fn = "delete_prompt" /\ pm'.called.name = DEFAULT_PROMPT_NAME)
            => (pm'.prompts = pm.prompts /\ fs' = fs)
       /\ (pm'.called.fn \in {"add_prompt", "delete_prompt"}
             /\ DEFAULT_PROMPT_NAME \in DOMAIN pm.prompts)
            => DEFAULT_PROMPT_NAME \in DOMAIN pm'.prompts]_vars

\* delete_prompt has been called with the default name on a set that holds
\* the default prompt and another one, after another prompt was deleted.
C24_Witness ==
    /\ pm.called.fn = "delete_prompt"
    /\ pm.called.name = DEFAULT_PROMPT_NAME
    /\ pm.called.raises = ""
    /\ DEFAULT_PROMPT_NAME \in DOMAIN pm.prompts
    /\ <<"b">> \in DOMAIN pm.prompts
    /\ <<"a">> \notin DOMAIN pm.prompts
    /\ config_path \in DOMAIN fs
    /\ fs[config_path] = JsonDoc(pm.prompts)

(***************************************************************************)
(* The summarization workers of gui_summary.py.  _start_summary_thread     *)
(* runs in the GUI thread and starts a thread on _summarize_video; the     *)
(* worker talks to the GUI thread through self.queue only, and the         *)
(* periodic _process_queue empties the queue.  A queue message is the      *)
(* Python value that was put: a tuple (kind, argument) or a string.  The   *)
(* widgets that only display (video_title_var, summary_text) are not part  *)
(* of the state.  A worker frame keeps, next to its position, the list of  *)
(* the messages it has put and how its run ended.                          *)
(***************************************************************************)

\* The number of summarization threads started in a run of the program.
MaxWorkers == 2

\* is_youtube_url(string)
is_youtube_url(string) == \E k \in DOMAIN UrlSegments : contains(string, UrlSegments[k])

\* ('SET_TITLE', title), ('SHOW_SETTINGS', message), ('SET_SUMMARY_PATH', filepath)
Message(kind, argument) == PyTuple(<<kind, argument>>)

\* "ENABLE_BUTTONS"
ENABLE_BUTTONS == PyStr("ENABLE_BUTTONS")

\* The folder of the output_folder setting and the name of the summary file
\* in it: "[video_id] - ..." with ".txt"; the prompt, uploader and title
\* parts of the name do not change between the runs and are left out.
OutputFolder == <<"o", "u", "t">>
summary_filepath(output_folder, video_id) ==
    path_join(output_folder, <<"[">> \o video_id \o <<"]", ".", "t", "x", "t">>)

\* Thread(target=self._summarize_video, args=(input_text,))
Worker(input_text) ==
    [pc |-> "try", input_text |-> input_text, video_id |-> <<>>, output_folder |-> <<>>,
     posted |-> <<>>, outcome |-> ""]

\* SummaryGUI.__init__: the three buttons are enabled, the queue is empty,
\* no summary is loaded and no thread has been started.
NewGui ==
    [summarize_button |-> "normal", load_button |-> "normal", delete_button |-> "normal",
     current_summary_path |-> None, queue |-> <<>>, workers |-> <<>>,
     settings_window |-> "closed"]

\* self.queue.put(msg) by worker w
put(g, w, msg) ==
    [g EXCEPT !.queue = Append(@, msg), !.workers[w].posted = Append(@, msg)]

\* _start_summary_thread, from the Summarize button (which a disabled button
\* does not deliver) or from the Return key in the URL entry, with the
\* content of the URL entry.  The Settings window grabs the input while it
\* is open.
start_summary_thread(source, url_var) ==
    /\ gui.settings_window = "closed"
    /\ source = "button" => gui.summarize_button = "normal"
    /\ Len(gui.workers) < MaxWorkers
    /\ strip(url_var) # <<>>
    /\ gui' = [gui EXCEPT !.summarize_button = "disabled",
                          !.load_button = "disabled",
                          !.delete_button = "disabled",
                          !.current_summary_path = None,
                          !.workers = Append(@, Worker(strip(url_var)))]
    /\ UNCHANGED <<fs, remote, calls, mtime, now, meta, pm>>

\* _summarize_video lines 351-361: the two settings, the video id, the first
\* title.
summarize_video_try(w, api_key, output_folder) ==
    /\ w \in DOMAIN gui.workers
    /\ gui.workers[w].pc = "try"
    /\ LET input_text == gui.workers[w].input_text
       IN  IF api_key = ""
           THEN gui' = [put(gui, w, Message("SHOW_SETTINGS", "API Key is not set."))
                           EXCEPT !.workers[w].pc = "finally",
                                  !.workers[w].outcome = "settings"]
           ELSE IF output_folder = <<>>
           THEN gui' = [put(gui, w, Message("SHOW_SETTINGS", "Output folder is not set."))
                           EXCEPT !.workers[w].pc = "finally",
                                  !.workers[w].outcome = "settings"]
           ELSE IF is_youtube_url(input_text) \/ Len(input_text) = 11
           THEN gui' = [put(gui, w, Message("SET_TITLE", "Fetching title and CC..."))
                           EXCEPT !.workers[w].pc = "fetch",
                                  !.workers[w].output_folder = output_folder,
                                  !.workers[w].video_id =
                                      IF is_youtube_url(input_text)
                                      THEN extract_id(input_text) ELSE input_text]
           ELSE gui' = [gui EXCEPT !.workers[w].pc = "except"]
    /\ UNCHANGED <<fs, remote, calls, mtime, now, meta, pm>>

\* _summarize_video lines 362-372: the metadata and the captions are read,
\* which succeeds or raises, then the title and the progress text are put.
summarize_video_fetch(w, fetched) ==
    /\ w \in DOMAIN gui.workers
    /\ gui.workers[w].pc = "fetch"
    /\ IF fetched
       THEN gui' = [put(put(gui, w, Message("SET_TITLE", "title")), w, PyStr("Calling API..."))
                       EXCEPT !.workers[w].pc = "api"]
       ELSE gui' = [gui EXCEPT !.workers[w].pc = "except"]
    /\ UNCHANGED <<fs, remote, calls, mtime, now, meta, pm>>

\* _summarize_video lines 375-397: the API answers with candidates or with
\* an error, or the call raises; the summary is written and its path and
\* text are put.
summarize_video_api(w, api_response) ==
    /\ w \in DOMAIN gui.workers
    /\ gui.workers[w].pc = "api"
    /\ LET filepath == summary_filepath(gui.workers[w].output_folder, gui.workers[w].video_id)
       IN  IF api_response = "candidates"
           THEN /\ fs' = [q \in DOMAIN fs \cup {filepath} |->
                             IF q = filepath THEN Text("summary") ELSE fs[q]]
                /\ gui' = [put(put(gui, w, Message("SET_SUMMARY_PATH", filepath)),
                               w, PyStr("summary"))
                              EXCEPT !.workers[w].pc = "finally",
                                     !.workers[w].outcome = "success"]
           ELSE /\ gui' = [gui EXCEPT !.workers[w].pc = "except"]
                /\ UNCHANGED fs
    /\ UNCHANGED <<remote, calls, mtime, now, meta, pm>>

\* except Exception as e (line 400)
summarize_video_except(w) ==
    /\ w \in DOMAIN gui.workers
    /\ gui.workers[w].pc = "except"
    /\ gui' = [put(put(gui, w, Message("SET_TITLE", "...")), w, PyStr("An error occurred:"))
                  EXCEPT !.workers[w].pc = "finally",
                         !.workers[w].outcome = "error"]
    /\ UNCHANGED <<fs, remote, calls, mtime, now, meta, pm>>

\* finally (line 402)
summarize_video_finally(w) ==
    /\ w \in DOMAIN gui.workers
    /\ gui.workers[w].pc = "finally"
    /\ gui' = [put(gui, w, ENABLE_BUTTONS) EXCEPT !.workers[w].pc = "done"]
    /\ UNCHANGED <<fs, remote, calls, mtime, now, meta, pm>>

\* The body of the loop of _process_queue for one message.
process_message(g, msg) ==
    IF msg.t = "tuple"
    THEN IF msg.v[1] = "SHOW_SETTINGS" THEN [g EXCEPT !.settings_window = "open"]
         ELSE IF msg.v[1] = "SET_SUMMARY_PATH"
              THEN [g EXCEPT !.current_summary_path = PyStr(msg.v[2])]
              ELSE g
    ELSE IF msg = ENABLE_BUTTONS
         THEN [g EXCEPT !.summarize_button = "normal",
                        !.load_button = "normal",
                        !.delete_button = "normal"]
         ELSE g

\* while True: msg = self.queue.get_nowait() ... until Empty
RECURSIVE process_messages(_, _)
process_messages(g, msgs) ==
    IF msgs = <<>> THEN g
    ELSE process_messages(process_message(g, Head(msgs)), Tail(msgs))

\* _process_queue, which master.after runs every 100 ms; it changes nothing
\* when it finds the queue empty.
process_queue ==
    /\ gui.queue # <<>>
    /\ gui' = process_messages([gui EXCEPT !.queue = <<>>], gui.queue)
    /\ UNCHANGED <<fs, remote, calls, mtime, now, meta, pm>>

\* The Settings window is closed (SettingsWindow._submit or its Cancel).
SettingsWindow_destroy ==
    /\ gui.settings_window = "open"
    /\ gui' = [gui EXCEPT !.settings_window = "closed"]
    /\ UNCHANGED <<fs, remote, calls, mtime, now, meta, pm>>

\* _load_summary_from_file with the file chosen in the dialog
load_summary_from_file(filepath) ==
    /\ gui.settings_window = "closed"
    /\ gui.load_button = "normal"
    /\ filepath \in DOMAIN fs
    /\ gui.current_summary_path # PyStr(filepath)
    /\ gui' = [gui EXCEPT !.current_summary_path = PyStr(filepath)]
    /\ UNCHANGED <<fs, remote, calls, mtime, now, meta, pm>>

\* _delete_summary, confirmed: the loaded summary file is removed
delete_summary ==
    /\ gui.settings_window = "closed"
    /\ gui.delete_button = "normal"
    /\ gui.current_summary_path # None
    /\ gui.current_summary_path.v \in DOMAIN fs
    /\ fs' = [q \in DOMAIN fs \ {gui.current_summary_path.v} |-> fs[q]]
    /\ gui' = [gui EXCEPT !.current_summary_path = None]
    /\ UNCHANGED <<remote, calls, mtime, now, meta, pm>>

\* What the URL entry holds when a summary is started
TypedUrls == {<<" ">>, VideoId, WatchUrl \o <<" ">>, <<"x">>}

\* The files offered by the dialog of Load Summary
SummaryFiles == {summary_filepath(OutputFolder, VideoId)}

\* The api_key and output_folder settings a worker finds
ApiKeys == {"", "key"}
OutputFolders == {<<>>, OutputFolder}

InitGui ==
    /\ fs = <<>>
    /\ remote = CaptionDoc
    /\ calls = [p \in {1} |-> NewFrame]
    /\ mtime = <<>>
    /\ now = 0
    /\ meta = NoMeta
    /\ pm = None
    /\ gui = NewGui

\* The steps of the worker threads
WorkerStep ==
    \E w \in 1..MaxWorkers :
        \/ \E k \in ApiKeys, o \in OutputFolders : summarize_video_try(w, k, o)
        \/ \E fetched \in BOOLEAN : summarize_video_fetch(w, fetched)
        \/ \E r \in {"candidates", "error", "raises"} : summarize_video_api(w, r)
        \/ summarize_video_except(w)
        \/ summarize_video_finally(w)

NextGui ==
    \/ \E source \in {"button", "Return"}, u \in TypedUrls : start_summary_thread(source, u)
    \/ \E w \in 1..MaxWorkers, k \in ApiKeys, o \in OutputFolders : summarize_video_try(w, k, o)
    \/ \E w \in 1..MaxWorkers, fetched \in BOOLEAN : summarize_video_fetch(w, fetched)
    \/ \E w \in 1..MaxWorkers, r \in {"candidates", "error", "raises"} : summarize_video_api(w, r)
    \/ \E w \in 1..MaxWorkers : summarize_video_except(w)
    \/ \E w \in 1..MaxWorkers : summarize_video_finally(w)
    \/ process_queue
    \/ SettingsWindow_destroy
    \/ \E f \in SummaryFiles : load_summary_from_file(f)
    \/ delete_summary

\* A started thread runs on, and the Tk main loop keeps running the
\* callback that master.after schedules.
SpecGui ==
    InitGui /\ [][NextGui]_vars /\ WF_vars(WorkerStep) /\ WF_vars(process_queue)

\* The messages worker w has put that are ENABLE_BUTTONS, by position
Enables(w) == {k \in DOMAIN gui.workers[w].posted : gui.workers[w].posted[k] = ENABLE_BUTTONS}

\* Worker w has been started and has not put ENABLE_BUTTONS yet.
Running(w) == w \in DOMAIN gui.workers /\ Enables(w) = {}

\* C27: while a summarization worker has not yet posted ENABLE_BUTTONS no
\* second worker can be started, by the Summarize button or by the Return
\* key: at most one _summarize_video thread runs at a time.
C27_OneWorkerAtATime ==
    Cardinality({w \in DOMAIN gui.workers : Running(w)}) <= 1

\* The run of worker w is over and it failed: an exception, or the early
\* return for a missing setting.
Failed(w) ==
    /\ w \in DOMAIN gui.workers
    /\ gui.workers[w].pc = "done"
    /\ gui.workers[w].outcome \in {"error", "settings"}

\* Worker w has put SET_SUMMARY_PATH.
PostedPath(w) ==
    \E k \in DOMAIN gui.workers[w].posted :
        /\ gui.workers[w].posted[k].t = "tuple"
        /\ gui.workers[w].posted[k].v[1] = "SET_SUMMARY_PATH"

\* C28, the messages: a worker that is done has put ENABLE_BUTTONS once, as
\* its last message, whatever its outcome; one that is not done has not put
\* it; a failed one has not put SET_SUMMARY_PATH.
C28_EnableLast ==
    \A w \in DOMAIN gui.workers :
        /\ gui.workers[w].pc = "done" =>
              /\ Enables(w) = {Len(gui.workers[w].posted)}
              /\ gui.workers[w].outcome \in {"success", "error", "settings"}
        /\ gui.workers[w].pc # "done" => Enables(w) = {}
        /\ Failed(w) => ~PostedPath(w)

\* C28, the summary path: when the worker started last has failed and
\* _process_queue has handled all it put, current_summary_path is unset.
C28_PathStaysUnset ==
    (gui.workers # <<>> /\ Failed(Len(gui.workers)) /\ gui.queue # <<>> /\ gui'.queue = <<>>)
        => gui'.current_summary_path = None

\* C28: every started worker posts ENABLE_BUTTONS exactly once and as its
\* last message, on success, on an exception and on the early returns; with
\* _process_queue running, the buttons disabled at the start are enabled
\* again in the end; and on a failed run no SET_SUMMARY_PATH is posted and
\* current_summary_path stays unset.
C28_ButtonsComeBack ==
    /\ []C28_EnableLast
    /\ [][C28_PathStaysUnset]_vars
    /\ (gui.summarize_button = "disabled" ~> gui.summarize_button = "normal")
    /\ (gui.load_button = "disabled" ~> gui.load_button = "normal")
    /\ (gui.delete_button = "disabled" ~> gui.delete_button = "normal")

====
